---- MODULE Spec2Model ----
(***************************************************************************)
(* Model of awm's lock-protected migration commands.                       *)
(*                                                                         *)
(* AppwriteLockManager (lib/appwrite.js) keeps one lock document per       *)
(* lockId in the awm_locks collection; AWMImproved.withLock (awm.js) wraps *)
(* the body of apply / relationships / rollback / reset in acquire and     *)
(* release.  Every remote call of acquire and release is one step of the   *)
(* model, so that calls of concurrently running processes interleave the   *)
(* way they can against the shared database.                               *)
(*                                                                         *)
(* Time is counted in ticks; the lock TTL (ttlSeconds = 600) is TtlTicks   *)
(* ticks long.                                                             *)
(***************************************************************************)
EXTENDS Integers, FiniteSets, Sequences

\* ---------------------------------------------------------------- bounds
\* Last tick of the clock.
MaxTime == 3
\* Length of the default lock TTL (600 s) in ticks.
TtlTicks == 2
\* Calls of acquire to itself that are counted per acquisition.
MaxRetries == 2
\* History documents the state collection holds at most.
MaxHistory == 2

\* ------------------------------------------------------------ vocabulary
\* Concurrently running invocations of the tool (machines, CI runners).
Procs == {"p1", "p2", "p3"}
\* The invocations that run in the specifications with a clock or with --force.
Callers == {"p1", "p2"}
\* The machine each invocation runs on: os.hostname().
HostOf(p) ==
    CASE p = "p1" -> "hostA"
      [] p = "p2" -> "hostB"
      [] p = "p3" -> "hostC"
\* Values of AWM_LOCK_OWNER || os.hostname().
Owners == {HostOf(p) : p \in Callers}
\* The four mutating commands.
Commands == {"apply", "relationships", "rollback", "reset"}

\* The lock id each command passes to withLock.
LockIdOf(c) ==
    CASE c = "apply" -> "schema-apply"
      [] c = "relationships" -> "schema-relationships"
      [] c = "rollback" -> "schema-rollback"
      [] c = "reset" -> "schema-reset"

LockIds == {LockIdOf(c) : c \in Commands}

\* getDocument answers null for a missing document.
NoDoc == [owner |-> "", status |-> "none", created_at |-> 0, expires_at |-> 0]

\* The ways the body handed to withLock can end, per command.
BodyExits(c) ==
    CASE c = "apply" -> {"nothing", "dry_run", "completed", "body_error"}
      [] c = "relationships" -> {"nothing", "dry_run", "completed", "body_error"}
      [] c = "rollback" -> {"nothing", "dry_run", "completed", "body_error"}
      [] c = "reset" -> {"cancelled", "completed", "body_error"}

VARIABLES
    now,        \* the clock: new Date()
    locks,      \* awm_locks: lockId -> lock document, or NoDoc
    pc,         \* where each process stands
    cmd,        \* the command a process runs
    lockOwner,  \* this.lockOwner
    force,      \* this.force (--force)
    acqNow,     \* `now` taken at the start of acquire
    result,     \* how the command ended
    errHolder,  \* the holder named by a lock error message
    errSince,   \* the created_at named by the contention error message
    checkedAt,  \* the clock value the expiry test of acquire compared with
    retries,    \* how often the running acquire has called itself
    schema,     \* the parsed schema file
    remote,     \* the remote database: collections, attributes, indexes
    history,    \* the history documents of awm_state, oldest first
    epc,        \* the command body that is running, or "idle"
    changes,    \* the change set the running body works through
    pos,        \* the next entry of the change set
    target,     \* the history document a rollback works on
    eforce,     \* this.force of the running body
    edry,       \* this.dryRun of the latest body
    calls,      \* the creation and deletion calls of the latest run, in order
    eout,       \* how the latest body ended
    internal,   \* the internal collections (awm_state, awm_locks) that exist
    rpc,        \* the read-only command that is running and where it is
    writes,     \* the mutating calls of the latest read-only process
    rawKey,     \* an index key handed to sanitizeIndexKey
    saneKey,    \* what sanitizeIndexKey returned for it
    saneAgain,  \* what a second call returned for it
    sentKey,    \* the key applyChanges sends on creation for the key of the diff
    storedKey,  \* the key compactChanges puts into the history record for it
    attrIn,     \* an attribute entry handed to buildAttributeCommand
    attrCmd,    \* the command buildAttributeCommand returned for it
    parser,     \* parseSchema: the lines, the position and the locals of the loop
    declared,   \* a declared schema and remote ids handed to calculateChanges
    emitted     \* the change set calculateChanges returned for it

\* The state of the lock manager and of the processes using it.
lvars == <<now, locks, pc, cmd, lockOwner, force, acqNow, result, errHolder,
           errSince, checkedAt, retries>>

\* The state of the migration engine.
evars == <<schema, remote, history, epc, changes, pos, target, eforce, edry, calls,
           eout>>

\* The state of process start-up and of the read-only commands.
bvars == <<internal, rpc, writes>>

\* Arguments and results of the functions looked at on their own.
fvars == <<rawKey, saneKey, saneAgain, sentKey, storedKey, attrIn, attrCmd>>

\* The state of parseSchema.
pvars == <<parser>>

\* Argument and result of calculateChanges looked at on its own.
dvars == <<declared, emitted>>

ovars == <<bvars, fvars, pvars, dvars>>

vars == <<lvars, evars, ovars>>

\* The process is between a successful acquire and the end of its release.
Holding(p) == pc[p] \in {"body", "release", "rel_delete"}

Truthy(s) == s # ""

LockId(p) == LockIdOf(cmd[p])

\* The document acquire writes: owner, status 'locked', created_at = now,
\* expires_at = now + ttlSeconds.
LockDoc(o, t) ==
    [owner |-> o, status |-> "locked", created_at |-> t, expires_at |-> t + TtlTicks]

\* Expired with the boundary instant counted as expired.
ExpiredInclusive(doc, t) == doc.expires_at <= t

\* Expired for a lock whose expiry is never looked at.
ExpiredNever(doc, t) == FALSE

\* existing.expires_at && new Date(existing.expires_at) < new Date()
Expired(doc, t) == doc.expires_at < t

\* Contended with the expiry test the wrong way round.
ContendedInverted(doc, o, f, t) == ~f /\ Expired(doc, t) /\ ~(doc.owner = o)

\* Contended when --force is not looked at.
ContendedNoForce(doc, o, f, t) == ~Expired(doc, t) /\ ~(doc.owner = o)

\* Contended when the caller's own lock is not recognised.
ContendedNoReentry(doc, o, f, t) == ~f /\ ~Expired(doc, t)

\* !force && !expired && !sameOwner
Contended(doc, o, f, t) == ~f /\ ~Expired(doc, t) /\ ~(doc.owner = o)

\* ForeignLock when release does not compare owners.
ForeignLockNever(doc, o) == FALSE

\* owner && existing.owner && existing.owner !== owner
ForeignLock(doc, o) == Truthy(o) /\ Truthy(doc.owner) /\ doc.owner # o

\* ------------------------------------------------- schema and remote state
\* Collection names a schema file can declare, in the order of the file.
CollNameSeq == <<"Users", "BlogPosts">>

\* toKebabCase: a hyphen between a lower-case letter or digit and the
\* capital that follows it, then lower case.
ToKebabCase(name) ==
    CASE name = "Users" -> "users"
      [] name = "BlogPosts" -> "blog-posts"

CollIds == {ToKebabCase(CollNameSeq[k]) : k \in 1..Len(CollNameSeq)}

\* Attribute lines a schema file can hold, in the order of the file; rel
\* says that the line carries @relationship.
AttrDeclSeq ==
    << [coll |-> "Users", key |-> "email", rel |-> FALSE],
       [coll |-> "Users", key |-> "posts", rel |-> TRUE],
       [coll |-> "BlogPosts", key |-> "title", rel |-> FALSE] >>

\* @@index lines a schema file can hold, in the order of the file.
IndexDeclSeq ==
    << [coll |-> "Users", fields |-> "email"],
       [coll |-> "Users", fields |-> "email_address_of_the_account_holder"] >>

\* index.name || `idx_${fields.join('_')}`: parseSchema never sets a name.
RawIndexKey(fields) ==
    CASE fields = "email" -> "idx_email"
      [] fields = "email_address_of_the_account_holder"
           -> "idx_email_address_of_the_account_holder"

\* sanitizeIndexKey: leading non-alphanumerics stripped, other characters
\* outside [a-zA-Z0-9._-] replaced, and a key longer than 36 characters
\* replaced by idx_ and 28 hex digits of its md5.
SanitizeIndexKey(key) ==
    CASE key = "idx_email" -> "idx_email"
      [] key = "idx_email_address_of_the_account_holder" -> "idx_9f2c41d07ab35e6618c0d4b7a3e5"
      [] key = "idx_9f2c41d07ab35e6618c0d4b7a3e5" -> "idx_9f2c41d07ab35e6618c0d4b7a3e5"

SeqRange(s) == {s[k] : k \in 1..Len(s)}

\* The schemas parseSchema can return over these lines: attributes and
\* indexes belong to a declared collection.
NoSchema == [colls |-> {}, attrs |-> {}, idxs |-> {}]

Schemas ==
    {s \in [colls : SUBSET SeqRange(CollNameSeq),
            attrs : SUBSET SeqRange(AttrDeclSeq),
            idxs : SUBSET SeqRange(IndexDeclSeq)] :
        /\ \A a \in s.attrs : a.coll \in s.colls
        /\ \A i \in s.idxs : i.coll \in s.colls}

\* AppwriteSchemaInspector.describe of a database without collections.
NoRemote == [colls |-> {}, attrs |-> {}, idxs |-> {}]

NoChanges == [collections |-> <<>>, attributes |-> <<>>, indexes |-> <<>>,
              relationships |-> <<>>]

\* The engine before any command body has run.
EngineAtRest(s) ==
    /\ schema = s
    /\ remote = NoRemote
    /\ history = <<>>
    /\ epc = "idle"
    /\ changes = NoChanges
    /\ pos = 0
    /\ target = 0
    /\ eforce = FALSE
    /\ edry = FALSE
    /\ calls = <<>>
    /\ eout = "none"

\* Process start-up has provisioned the internal collections, no read-only
\* command runs, and no function has been called on its own.
OthersAtRest ==
    /\ internal = {"awm_state", "awm_locks"}
    /\ rpc = [cmd |-> "none", at |-> "idle"]
    /\ writes = {}
    /\ rawKey = <<>>
    /\ saneKey = <<>>
    /\ saneAgain = <<>>
    /\ sentKey = <<>>
    /\ storedKey = <<>>
    /\ attrIn = [type |-> "string", array |-> FALSE, default |-> "none"]
    /\ attrCmd = [op |-> "none", array |-> FALSE,
                  default |-> [present |-> FALSE, text |-> "", quoted |-> FALSE]]
    /\ parser = [lines |-> <<>>, at |-> 1, currentBlock |-> "null",
                 currentCollection |-> "", currentDatabase |-> "null",
                 bracketDepth |-> 0, databases |-> {}, collections |-> {},
                 attributes |-> {}, indexes |-> {}]
    /\ declared = [names |-> <<>>, attributes |-> <<>>, indexes |-> <<>>, remote |-> {}]
    /\ emitted = [collections |-> <<>>, attributes |-> <<>>, indexes |-> <<>>,
                  done |-> FALSE]

Idle(p) ==
    /\ pc' = [pc EXCEPT ![p] = "idle"]
    /\ cmd' = [cmd EXCEPT ![p] = "apply"]
    /\ lockOwner' = [lockOwner EXCEPT ![p] = ""]
    /\ force' = [force EXCEPT ![p] = FALSE]
    /\ acqNow' = [acqNow EXCEPT ![p] = 0]
    /\ result' = [result EXCEPT ![p] = "none"]
    /\ errHolder' = [errHolder EXCEPT ![p] = ""]
    /\ errSince' = [errSince EXCEPT ![p] = 0]
    /\ checkedAt' = [checkedAt EXCEPT ![p] = 0]
    /\ retries' = [retries EXCEPT ![p] = 0]

\* No lock is held and no invocation runs.
LocksAtRest ==
    /\ now = 0
    /\ locks = [l \in LockIds |-> NoDoc]
    /\ pc = [p \in Procs |-> "idle"]
    /\ cmd = [p \in Procs |-> "apply"]
    /\ lockOwner = [p \in Procs |-> ""]
    /\ force = [p \in Procs |-> FALSE]
    /\ acqNow = [p \in Procs |-> 0]
    /\ result = [p \in Procs |-> "none"]
    /\ errHolder = [p \in Procs |-> ""]
    /\ errSince = [p \in Procs |-> 0]
    /\ checkedAt = [p \in Procs |-> 0]
    /\ retries = [p \in Procs |-> 0]

Init ==
    /\ LocksAtRest
    /\ EngineAtRest(NoSchema)
    /\ OthersAtRest

\* A process is started with command c, lock owner o and --force f.
\* ensureConfig / withLock throw before any remote call when the
\* credentials are missing; otherwise acquire starts and reads the clock.
Start(p, c, o, f, configured) ==
    /\ pc[p] = "idle"
    /\ cmd' = [cmd EXCEPT ![p] = c]
    /\ lockOwner' = [lockOwner EXCEPT ![p] = o]
    /\ force' = [force EXCEPT ![p] = f]
    /\ IF configured
         THEN /\ pc' = [pc EXCEPT ![p] = "acquire"]
              /\ acqNow' = [acqNow EXCEPT ![p] = now]
              /\ result' = result
         ELSE /\ pc' = [pc EXCEPT ![p] = "done"]
              /\ acqNow' = acqNow
              /\ result' = [result EXCEPT ![p] = "config_error"]
    /\ UNCHANGED <<now, locks, errHolder, errSince, checkedAt>>
    /\ UNCHANGED <<retries, evars, ovars>>

\* AcqCreate with a create that never answers 409 (an upsert, or a document
\* id that is not derived from the lock id).
AcqCreateNoConflict(p) ==
    /\ pc[p] = "acquire"
    /\ locks' = [locks EXCEPT ![LockId(p)] = LockDoc(lockOwner[p], acqNow[p])]
    /\ pc' = [pc EXCEPT ![p] = "body"]
    /\ acqNow' = [acqNow EXCEPT ![p] = 0]
    /\ retries' = [retries EXCEPT ![p] = 0]
    /\ UNCHANGED <<now, cmd, lockOwner, force, result, errHolder, errSince, checkedAt>>
    /\ UNCHANGED <<evars, ovars>>

\* acquire: createDocument. The document id is derived from the lock id,
\* so the call answers 409 when a lock document for it exists.
AcqCreate(p) ==
    /\ pc[p] = "acquire"
    /\ IF locks[LockId(p)] = NoDoc
         THEN /\ locks' = [locks EXCEPT ![LockId(p)] = LockDoc(lockOwner[p], acqNow[p])]
              /\ pc' = [pc EXCEPT ![p] = "body"]
              /\ acqNow' = [acqNow EXCEPT ![p] = 0]
              /\ retries' = [retries EXCEPT ![p] = 0]
         ELSE /\ pc' = [pc EXCEPT ![p] = "acq_get"]
              /\ UNCHANGED <<locks, acqNow, retries>>
    /\ UNCHANGED <<now, cmd, lockOwner, force, result, errHolder, errSince, checkedAt>>
    /\ UNCHANGED <<evars, ovars>>

\* AcqGet of an acquire that polls: a live lock of another owner sends it
\* back to the create instead of ending the call.
AcqGetPolls(p) ==
    /\ pc[p] = "acq_get"
    /\ LET existing == locks[LockId(p)] IN
         IF existing = NoDoc \/ Contended(existing, lockOwner[p], force[p], now)
           THEN /\ pc' = [pc EXCEPT ![p] = "acquire"]
                /\ acqNow' = [acqNow EXCEPT ![p] = now]
                /\ UNCHANGED <<result, errHolder, errSince, checkedAt, retries>>
           ELSE /\ checkedAt' = [checkedAt EXCEPT ![p] = now]
                /\ pc' = [pc EXCEPT ![p] = "acq_update"]
                /\ UNCHANGED <<acqNow, result, errHolder, errSince, retries>>
    /\ UNCHANGED <<now, locks, cmd, lockOwner, force>>
    /\ UNCHANGED <<evars, ovars>>

\* acquire after a 409: getDocument, then the contention test.
AcqGet(p) ==
    /\ pc[p] = "acq_get"
    /\ LET existing == locks[LockId(p)] IN
         IF existing = NoDoc
           THEN \* the lock went away meanwhile: acquire calls itself
                /\ pc' = [pc EXCEPT ![p] = "acquire"]
                /\ acqNow' = [acqNow EXCEPT ![p] = now]
                /\ retries' = [retries EXCEPT ![p] =
                                 IF @ < MaxRetries THEN @ + 1 ELSE @]
                /\ UNCHANGED <<result, errHolder, errSince, checkedAt>>
           ELSE /\ checkedAt' = [checkedAt EXCEPT ![p] = now]
                /\ IF Contended(existing, lockOwner[p], force[p], now)
                     THEN /\ pc' = [pc EXCEPT ![p] = "done"]
                          /\ retries' = [retries EXCEPT ![p] = 0]
                          /\ result' = [result EXCEPT ![p] = "lock_contention"]
                          /\ errHolder' = [errHolder EXCEPT ![p] = existing.owner]
                          /\ errSince' = [errSince EXCEPT ![p] = existing.created_at]
                          /\ acqNow' = [acqNow EXCEPT ![p] = 0]
                     ELSE /\ pc' = [pc EXCEPT ![p] = "acq_update"]
                          /\ UNCHANGED <<acqNow, result, errHolder, errSince, retries>>
    /\ UNCHANGED <<now, locks, cmd, lockOwner, force>>
    /\ UNCHANGED <<evars, ovars>>

\* acquire: updateDocument overwrites owner, status, created_at and
\* expires_at; it answers 404, which acquire does not catch, when the
\* document is gone.
AcqUpdate(p) ==
    /\ pc[p] = "acq_update"
    /\ IF locks[LockId(p)] = NoDoc
         THEN /\ pc' = [pc EXCEPT ![p] = "done"]
              /\ result' = [result EXCEPT ![p] = "remote_error"]
              /\ locks' = locks
         ELSE /\ locks' = [locks EXCEPT ![LockId(p)] = LockDoc(lockOwner[p], acqNow[p])]
              /\ pc' = [pc EXCEPT ![p] = "body"]
              /\ result' = result
    /\ acqNow' = [acqNow EXCEPT ![p] = 0]
    /\ checkedAt' = [checkedAt EXCEPT ![p] = 0]
    /\ retries' = [retries EXCEPT ![p] = 0]
    /\ UNCHANGED <<now, cmd, lockOwner, force, errHolder, errSince>>
    /\ UNCHANGED <<evars, ovars>>

\* Body without the finally: a body that throws skips release.
BodyNoFinally(p) ==
    /\ pc[p] = "body"
    /\ \E e \in BodyExits(cmd[p]) :
         /\ result' = [result EXCEPT ![p] = e]
         /\ pc' = [pc EXCEPT ![p] = IF e = "body_error" THEN "done" ELSE "release"]
    /\ UNCHANGED <<now, locks, cmd, lockOwner, force, acqNow, errHolder, errSince,
                   checkedAt>>
    /\ UNCHANGED <<retries, evars, ovars>>

\* withLock: try { return await fn() } finally { release }.  The body ends
\* by completing, by an early return or by throwing; release follows.
Body(p) ==
    /\ pc[p] = "body"
    /\ \E e \in BodyExits(cmd[p]) :
         result' = [result EXCEPT ![p] = e]
    /\ pc' = [pc EXCEPT ![p] = "release"]
    /\ UNCHANGED <<now, locks, cmd, lockOwner, force, acqNow, errHolder, errSince,
                   checkedAt>>
    /\ UNCHANGED <<retries, evars, ovars>>

\* release: getDocument, then the owner test.
Release(p) ==
    /\ pc[p] = "release"
    /\ LET existing == locks[LockId(p)] IN
         IF existing = NoDoc
           THEN /\ pc' = [pc EXCEPT ![p] = "done"]
                /\ UNCHANGED <<result, errHolder>>
           ELSE IF ForeignLock(existing, lockOwner[p])
                  THEN /\ pc' = [pc EXCEPT ![p] = "done"]
                       /\ result' = [result EXCEPT ![p] = "release_error"]
                       /\ errHolder' = [errHolder EXCEPT ![p] = existing.owner]
                  ELSE /\ pc' = [pc EXCEPT ![p] = "rel_delete"]
                       /\ UNCHANGED <<result, errHolder>>
    /\ UNCHANGED <<now, locks, cmd, lockOwner, force, acqNow, errSince, checkedAt>>
    /\ UNCHANGED <<retries, evars, ovars>>

\* RelDelete that deletes under a document id no lock was stored under.
RelDeleteWrongId(p) ==
    /\ pc[p] = "rel_delete"
    /\ pc' = [pc EXCEPT ![p] = "done"]
    /\ UNCHANGED <<now, locks, cmd, lockOwner, force, acqNow, result, errHolder,
                   errSince, checkedAt>>
    /\ UNCHANGED <<retries, evars, ovars>>

\* release: deleteDocument (a 404 is swallowed by the client).
RelDelete(p) ==
    /\ pc[p] = "rel_delete"
    /\ locks' = [locks EXCEPT ![LockId(p)] = NoDoc]
    /\ pc' = [pc EXCEPT ![p] = "done"]
    /\ UNCHANGED <<now, cmd, lockOwner, force, acqNow, result, errHolder, errSince,
                   checkedAt>>
    /\ UNCHANGED <<retries, evars, ovars>>

\* The process has returned (or reported its error) and exits.
Exit(p) ==
    /\ pc[p] = "done"
    /\ Idle(p)
    /\ UNCHANGED <<now, locks>>
    /\ UNCHANGED <<evars, ovars>>

\* The process is interrupted while it holds the lock: nothing more of it
\* runs, its lock document stays.
Interrupt(p) ==
    /\ pc[p] \in {"body", "release", "rel_delete"}
    /\ Idle(p)
    /\ UNCHANGED <<now, locks>>
    /\ UNCHANGED <<evars, ovars>>

\* Time passes.
Tick ==
    /\ now < MaxTime
    /\ now' = now + 1
    /\ UNCHANGED <<locks, pc, cmd, lockOwner, force, acqNow, result, errHolder,
                   errSince, checkedAt>>
    /\ UNCHANGED <<retries, evars, ovars>>

\* The lock manager on one lock id: invocations of apply with any owner,
\* with and without --force, interrupted or not, as time passes.
Next ==
    \/ \E p \in Callers, o \in Owners, f \in BOOLEAN : Start(p, "apply", o, f, TRUE)
    \/ \E p \in Procs : AcqCreate(p)
    \/ \E p \in Procs : AcqGet(p)
    \/ \E p \in Procs : AcqUpdate(p)
    \/ \E p \in Procs : Body(p)
    \/ \E p \in Procs : Release(p)
    \/ \E p \in Procs : RelDelete(p)
    \/ \E p \in Procs : Exit(p)
    \/ \E p \in Procs : Interrupt(p)
    \/ Tick

Spec == Init /\ [][Next]_vars

\* The four commands, with any owner and configuration, with and without
\* --force, while no time passes.
NextCommands ==
    \/ \E p \in Callers, c \in Commands, o \in Owners, f \in BOOLEAN, g \in BOOLEAN :
         Start(p, c, o, f, g)
    \/ \E p \in Procs : AcqCreate(p)
    \/ \E p \in Procs : AcqGet(p)
    \/ \E p \in Procs : AcqUpdate(p)
    \/ \E p \in Procs : Body(p)
    \/ \E p \in Procs : Release(p)
    \/ \E p \in Procs : RelDelete(p)
    \/ \E p \in Procs : Exit(p)

SpecCommands == Init /\ [][NextCommands]_vars

\* The four commands run from machines with pairwise distinct owners, none
\* with --force, while no TTL elapses.
NextDistinct ==
    \/ \E p \in Procs, c \in Commands : Start(p, c, HostOf(p), FALSE, TRUE)
    \/ \E p \in Procs : AcqCreate(p)
    \/ \E p \in Procs : AcqGet(p)
    \/ \E p \in Procs : Body(p)
    \/ \E p \in Procs : Release(p)
    \/ \E p \in Procs : RelDelete(p)
    \/ \E p \in Procs : Exit(p)

SpecDistinct == Init /\ [][NextDistinct]_vars

\* The apply command run from machines with pairwise distinct owners, none
\* with --force, interrupted or not, as time passes.
NextTakeover ==
    \/ \E p \in Procs : Start(p, "apply", HostOf(p), FALSE, TRUE)
    \/ \E p \in Procs : AcqCreate(p)
    \/ \E p \in Procs : AcqGet(p)
    \/ \E p \in Procs : AcqUpdate(p)
    \/ \E p \in Procs : Body(p)
    \/ \E p \in Procs : Release(p)
    \/ \E p \in Procs : RelDelete(p)
    \/ \E p \in Procs : Exit(p)
    \/ \E p \in Procs : Interrupt(p)
    \/ Tick

SpecTakeover == Init /\ [][NextTakeover]_vars

\* ------------------------------------------------------------ the diff
\* attr.decorators?.relationship of the declared attribute k of the
\* collection with id c.
DeclaredRelationship(c, k) ==
    \E a \in schema.attrs : a.rel /\ ToKebabCase(a.coll) = c /\ a.key = k

HasAttribute(R, c, k) == \E a \in R.attrs : a.coll = c /\ a.key = k

HasIndex(R, c, k) == \E i \in R.idxs : i.coll = c /\ i.key = k

\* calculateChanges without the test for @relationship.
CalculateChangesAllAttributes(S, R) ==
    LET present(n) == n \in S.colls /\ ToKebabCase(n) \in R.colls
        colls == SelectSeq(CollNameSeq,
                     LAMBDA n : n \in S.colls /\ ToKebabCase(n) \notin R.colls)
        attrs == SelectSeq(AttrDeclSeq,
                     LAMBDA a : /\ a \in S.attrs
                                /\ present(a.coll)
                                /\ ~HasAttribute(R, ToKebabCase(a.coll), a.key))
        idxs == SelectSeq(IndexDeclSeq,
                     LAMBDA i : /\ i \in S.idxs
                                /\ present(i.coll)
                                /\ ~HasIndex(R, ToKebabCase(i.coll),
                                             SanitizeIndexKey(RawIndexKey(i.fields))))
    IN  [collections |->
             [k \in 1..Len(colls) |->
                 [id |-> ToKebabCase(colls[k]), name |-> colls[k],
                  attributes |-> {a.key : a \in {x \in S.attrs : x.coll = colls[k]}}]],
         attributes |->
             [k \in 1..Len(attrs) |->
                 [collection_id |-> ToKebabCase(attrs[k].coll), key |-> attrs[k].key,
                  type |-> "string"]],
         indexes |->
             [k \in 1..Len(idxs) |->
                 [collection_id |-> ToKebabCase(idxs[k].coll),
                  key |-> SanitizeIndexKey(RawIndexKey(idxs[k].fields)),
                  attributes |-> idxs[k].fields]],
         relationships |-> <<>>]

\* calculateChanges looking up the remote indexes by the raw key.
CalculateChangesRawIndexKey(S, R) ==
    LET present(n) == n \in S.colls /\ ToKebabCase(n) \in R.colls
        colls == SelectSeq(CollNameSeq,
                     LAMBDA n : n \in S.colls /\ ToKebabCase(n) \notin R.colls)
        attrs == SelectSeq(AttrDeclSeq,
                     LAMBDA a : /\ a \in S.attrs
                                /\ present(a.coll)
                                /\ ~a.rel
                                /\ ~HasAttribute(R, ToKebabCase(a.coll), a.key))
        idxs == SelectSeq(IndexDeclSeq,
                     LAMBDA i : /\ i \in S.idxs
                                /\ present(i.coll)
                                /\ ~HasIndex(R, ToKebabCase(i.coll),
                                             RawIndexKey(i.fields)))
    IN  [collections |->
             [k \in 1..Len(colls) |->
                 [id |-> ToKebabCase(colls[k]), name |-> colls[k],
                  attributes |-> {a.key : a \in {x \in S.attrs : x.coll = colls[k]}}]],
         attributes |->
             [k \in 1..Len(attrs) |->
                 [collection_id |-> ToKebabCase(attrs[k].coll), key |-> attrs[k].key,
                  type |-> "string"]],
         indexes |->
             [k \in 1..Len(idxs) |->
                 [collection_id |-> ToKebabCase(idxs[k].coll),
                  key |-> SanitizeIndexKey(RawIndexKey(idxs[k].fields)),
                  attributes |-> idxs[k].fields]],
         relationships |-> <<>>]

\* calculateChanges without the continue after a new collection.
CalculateChangesNoContinue(S, R) ==
    LET present(n) == n \in S.colls
        colls == SelectSeq(CollNameSeq,
                     LAMBDA n : n \in S.colls /\ ToKebabCase(n) \notin R.colls)
        attrs == SelectSeq(AttrDeclSeq,
                     LAMBDA a : /\ a \in S.attrs
                                /\ present(a.coll)
                                /\ ~a.rel
                                /\ ~HasAttribute(R, ToKebabCase(a.coll), a.key))
        idxs == SelectSeq(IndexDeclSeq,
                     LAMBDA i : /\ i \in S.idxs
                                /\ present(i.coll)
                                /\ ~HasIndex(R, ToKebabCase(i.coll),
                                             SanitizeIndexKey(RawIndexKey(i.fields))))
    IN  [collections |->
             [k \in 1..Len(colls) |->
                 [id |-> ToKebabCase(colls[k]), name |-> colls[k],
                  attributes |-> {a.key : a \in {x \in S.attrs : x.coll = colls[k]}}]],
         attributes |->
             [k \in 1..Len(attrs) |->
                 [collection_id |-> ToKebabCase(attrs[k].coll), key |-> attrs[k].key,
                  type |-> "string"]],
         indexes |->
             [k \in 1..Len(idxs) |->
                 [collection_id |-> ToKebabCase(idxs[k].coll),
                  key |-> SanitizeIndexKey(RawIndexKey(idxs[k].fields)),
                  attributes |-> idxs[k].fields]],
         relationships |-> <<>>]

\* calculateChanges: a declared collection the remote lacks is emitted alone;
\* for a collection the remote has, the declared attributes without
\* @relationship whose key the remote lacks, and the declared indexes whose
\* sanitized key the remote lacks.
CalculateChanges(S, R) ==
    LET present(n) == n \in S.colls /\ ToKebabCase(n) \in R.colls
        colls == SelectSeq(CollNameSeq,
                     LAMBDA n : n \in S.colls /\ ToKebabCase(n) \notin R.colls)
        attrs == SelectSeq(AttrDeclSeq,
                     LAMBDA a : /\ a \in S.attrs
                                /\ present(a.coll)
                                /\ ~a.rel
                                /\ ~HasAttribute(R, ToKebabCase(a.coll), a.key))
        idxs == SelectSeq(IndexDeclSeq,
                     LAMBDA i : /\ i \in S.idxs
                                /\ present(i.coll)
                                /\ ~HasIndex(R, ToKebabCase(i.coll),
                                             SanitizeIndexKey(RawIndexKey(i.fields))))
    IN  [collections |->
             [k \in 1..Len(colls) |->
                 [id |-> ToKebabCase(colls[k]), name |-> colls[k],
                  attributes |-> {a.key : a \in {x \in S.attrs : x.coll = colls[k]}}]],
         attributes |->
             [k \in 1..Len(attrs) |->
                 [collection_id |-> ToKebabCase(attrs[k].coll), key |-> attrs[k].key,
                  type |-> "string"]],
         indexes |->
             [k \in 1..Len(idxs) |->
                 [collection_id |-> ToKebabCase(idxs[k].coll),
                  key |-> SanitizeIndexKey(RawIndexKey(idxs[k].fields)),
                  attributes |-> idxs[k].fields]],
         relationships |-> <<>>]

\* calculateRelationships without the filter on the type of the remote
\* attribute.
CalculateRelationshipsAnyType(S, R) ==
    LET rels == SelectSeq(AttrDeclSeq,
                    LAMBDA a : /\ a \in S.attrs
                               /\ a.rel
                               /\ ~\E r \in R.attrs :
                                      /\ r.coll = ToKebabCase(a.coll)
                                      /\ r.key = a.key)
    IN  [k \in 1..Len(rels) |->
            [collection |-> ToKebabCase(rels[k].coll), key |-> rels[k].key,
             to_collection |-> "blog-posts"]]

\* calculateRelationships: the declared attributes with @relationship whose
\* key is not the key of a remote attribute of type relationship.
CalculateRelationships(S, R) ==
    LET rels == SelectSeq(AttrDeclSeq,
                    LAMBDA a : /\ a \in S.attrs
                               /\ a.rel
                               /\ ~\E r \in R.attrs :
                                      /\ r.coll = ToKebabCase(a.coll)
                                      /\ r.key = a.key
                                      /\ r.type = "relationship")
    IN  [k \in 1..Len(rels) |->
            [collection |-> ToKebabCase(rels[k].coll), key |-> rels[k].key,
             to_collection |-> "blog-posts"]]

\* compactChanges: ids and keys only.
CompactChanges(ch) ==
    [collections |-> [k \in 1..Len(ch.collections) |->
                         [id |-> ch.collections[k].id, name |-> ch.collections[k].name]],
     attributes |-> [k \in 1..Len(ch.attributes) |->
                         [collection_id |-> ch.attributes[k].collection_id,
                          key |-> ch.attributes[k].key]],
     indexes |-> [k \in 1..Len(ch.indexes) |->
                         [collection_id |-> ch.indexes[k].collection_id,
                          key |-> SanitizeIndexKey(ch.indexes[k].key)]]]

\* generateChecksum: md5 of the serialized change set, taken as the change
\* set it was computed from.
GenerateChecksum(ch) == <<"md5", ch.collections, ch.attributes, ch.indexes>>

NoCompact == [collections |-> <<>>, attributes |-> <<>>, indexes |-> <<>>]

EmptyChanges(ch) ==
    Len(ch.collections) = 0 /\ Len(ch.attributes) = 0 /\ Len(ch.indexes) = 0

\* ------------------------------------------------- creation and deletion
CollectionCalls(ch) ==
    [k \in 1..Len(ch.collections) |->
        [kind |-> "collection", coll |-> ch.collections[k].id, key |-> ""]]

AttributeCalls(ch) ==
    [k \in 1..Len(ch.attributes) |->
        [kind |-> "attribute", coll |-> ch.attributes[k].collection_id,
         key |-> ch.attributes[k].key]]

IndexCalls(ch) ==
    [k \in 1..Len(ch.indexes) |->
        [kind |-> "index", coll |-> ch.indexes[k].collection_id,
         key |-> SanitizeIndexKey(ch.indexes[k].key)]]

RelationshipCalls(ch) ==
    [k \in 1..Len(ch.relationships) |->
        [kind |-> "relationship", coll |-> ch.relationships[k].collection,
         key |-> ch.relationships[k].key]]

\* applyChanges without its index loop.
CreationOrderNoIndexes(ch) == CollectionCalls(ch) \o AttributeCalls(ch)

\* applyChanges with the attribute loop before the collection loop.
CreationOrderAttributesFirst(ch) ==
    AttributeCalls(ch) \o CollectionCalls(ch) \o IndexCalls(ch)

\* applyChanges: the collection loop, then the attribute loop, then the
\* index loop.
CreationOrder(ch) == CollectionCalls(ch) \o AttributeCalls(ch) \o IndexCalls(ch)

\* rollback with the collection loop first.
DeletionOrderCollectionsFirst(ch) ==
    CollectionCalls(ch) \o AttributeCalls(ch) \o IndexCalls(ch)

\* rollback: the index loop, then the attribute loop, then the collection
\* loop.
DeletionOrder(ch) == IndexCalls(ch) \o AttributeCalls(ch) \o CollectionCalls(ch)

\* The entity a call names exists remotely.
Exists(R, e) ==
    CASE e.kind = "collection" -> e.coll \in R.colls
      [] e.kind = "index" -> HasIndex(R, e.coll, e.key)
      [] OTHER -> HasAttribute(R, e.coll, e.key)

\* The collections a creation call needs: the owning collection, and for a
\* relationship attribute the related collection.
ParentsExist(R, e) ==
    CASE e.kind = "collection" -> TRUE
      [] e.kind = "relationship" -> e.coll \in R.colls /\ "blog-posts" \in R.colls
      [] OTHER -> e.coll \in R.colls

\* The remote state after a creation call that succeeded.
Created(R, e) ==
    CASE e.kind = "collection" -> [R EXCEPT !.colls = @ \cup {e.coll}]
      [] e.kind = "index" ->
            [R EXCEPT !.idxs = @ \cup {[coll |-> e.coll, key |-> e.key]}]
      [] e.kind = "attribute" ->
            [R EXCEPT !.attrs = @ \cup {[coll |-> e.coll, key |-> e.key, type |-> "string"]}]
      [] e.kind = "relationship" ->
            [R EXCEPT !.attrs = @ \cup {[coll |-> e.coll, key |-> e.key,
                                         type |-> "relationship"]}]

\* Deleted when delete-collection is answered without the collection
\* being removed.
DeletedKeepsCollections(R, e) ==
    CASE e.kind = "collection" -> R
      [] e.kind = "index" ->
            [R EXCEPT !.idxs = {i \in @ : ~(i.coll = e.coll /\ i.key = e.key)}]
      [] OTHER ->
            [R EXCEPT !.attrs = {a \in @ : ~(a.coll = e.coll /\ a.key = e.key)}]

\* The remote state after a deletion call that succeeded; a collection
\* goes with its attributes and indexes.
Deleted(R, e) ==
    CASE e.kind = "collection" ->
            [colls |-> R.colls \ {e.coll},
             attrs |-> {a \in R.attrs : a.coll # e.coll},
             idxs |-> {i \in R.idxs : i.coll # e.coll}]
      [] e.kind = "index" ->
            [R EXCEPT !.idxs = {i \in @ : ~(i.coll = e.coll /\ i.key = e.key)}]
      [] OTHER ->
            [R EXCEPT !.attrs = {a \in @ : ~(a.coll = e.coll /\ a.key = e.key)}]

\* What the remote answers to a creation call; failed stands for any error
\* that is not a conflict (network, permission, quota, bad argument).
CreateResponse(R, e, failed) ==
    IF failed \/ ~ParentsExist(R, e) THEN "error"
    ELSE IF Exists(R, e) THEN "exists"
    ELSE "ok"

\* What the remote answers to a deletion call.
DeleteResponse(R, e, failed) ==
    IF failed THEN "error"
    ELSE IF ~Exists(R, e) THEN "not_found"
    ELSE "ok"

Call(op, e, resp) ==
    [op |-> op, kind |-> e.kind, coll |-> e.coll, key |-> e.key, resp |-> resp]

\* A body starts on the change set ch, for rollback read from the history
\* document k.
BodyStarts(ch, k, f, dry) ==
    /\ calls' = <<>>
    /\ changes' = ch
    /\ pos' = 1
    /\ target' = k
    /\ eforce' = f
    /\ edry' = dry

\* The body has ended, by returning or by throwing.
BodyEnds(out) ==
    /\ epc' = "idle"
    /\ eout' = out

\* ---------------------------------------------------------------- apply
RECURSIVE ApplyChangesFrom(_, _, _)
\* applyChanges from entry k on, against a remote that fails no call for
\* any reason but a missing collection.
ApplyChangesFrom(ch, R, k) ==
    IF k > Len(CreationOrder(ch)) THEN R
    ELSE LET e == CreationOrder(ch)[k]
             resp == CreateResponse(R, e, FALSE)
         IN  IF resp = "error" THEN R
             ELSE ApplyChangesFrom(ch, IF resp = "ok" THEN Created(R, e) ELSE R, k + 1)

\* The remote state applyChanges(changes) leaves.
ApplyChanges(ch, R) == ApplyChangesFrom(ch, R, 1)

\* ApplyStart of an apply that does not look at --dry-run.
ApplyStartIgnoresDryRun(f, dry) ==
    /\ epc = "idle"
    /\ IF Len(history) < MaxHistory THEN TRUE
       ELSE EmptyChanges(CalculateChanges(schema, remote))
    /\ LET ch == CalculateChanges(schema, remote) IN
         /\ BodyStarts(ch, 0, f, dry)
         /\ IF EmptyChanges(ch) THEN BodyEnds("nothing")
            ELSE epc' = "applying" /\ eout' = "none"
    /\ UNCHANGED <<schema, remote, history>>
    /\ UNCHANGED <<lvars, ovars>>

\* The body of apply up to applyChanges: parse, diff, the two early
\* returns.
ApplyStart(f, dry) ==
    /\ epc = "idle"
    /\ IF Len(history) < MaxHistory THEN TRUE
       ELSE EmptyChanges(CalculateChanges(schema, remote))
    /\ LET ch == CalculateChanges(schema, remote) IN
         /\ BodyStarts(ch, 0, f, dry)
         /\ IF EmptyChanges(ch) THEN BodyEnds("nothing")
            ELSE IF dry THEN BodyEnds("dry_run")
            ELSE epc' = "applying" /\ eout' = "none"
    /\ UNCHANGED <<schema, remote, history>>
    /\ UNCHANGED <<lvars, ovars>>

\* ApplyStep of an applyChanges that throws every error again, conflicts
\* included.
ApplyStepConflictThrows(failed) ==
    /\ epc = "applying"
    /\ pos <= Len(CreationOrder(changes))
    /\ LET e == CreationOrder(changes)[pos]
           resp == CreateResponse(remote, e, failed)
       IN  /\ calls' = Append(calls, Call("create", e, resp))
           /\ remote' = IF resp = "ok" THEN Created(remote, e) ELSE remote
           /\ IF resp # "ok"
                THEN BodyEnds("body_error") /\ pos' = pos
                ELSE pos' = pos + 1 /\ UNCHANGED <<epc, eout>>
    /\ UNCHANGED <<schema, history, changes, target, eforce, edry>>
    /\ UNCHANGED <<lvars, ovars>>

\* applyChanges: one creation call.  A conflict is logged and the loop goes
\* on; any other error is thrown again and ends the body.
ApplyStep(failed) ==
    /\ epc = "applying"
    /\ pos <= Len(CreationOrder(changes))
    /\ LET e == CreationOrder(changes)[pos]
           resp == CreateResponse(remote, e, failed)
       IN  /\ calls' = Append(calls, Call("create", e, resp))
           /\ remote' = IF resp = "ok" THEN Created(remote, e) ELSE remote
           /\ IF resp = "error"
                THEN BodyEnds("body_error") /\ pos' = pos
                ELSE pos' = pos + 1 /\ UNCHANGED <<epc, eout>>
    /\ UNCHANGED <<schema, history, changes, target, eforce, edry>>
    /\ UNCHANGED <<lvars, ovars>>

\* ApplyRecord that stores the change set as calculateChanges built it.
ApplyRecordUncompacted ==
    /\ epc = "applying"
    /\ pos > Len(CreationOrder(changes))
    /\ history' = Append(history,
                     [type |-> "apply", status |-> "applied",
                      checksum |-> GenerateChecksum(changes),
                      changes |-> [collections |-> changes.collections,
                                   attributes |-> changes.attributes,
                                   indexes |-> changes.indexes]])
    /\ BodyEnds("completed")
    /\ UNCHANGED <<schema, remote, calls, changes, pos, target, eforce, edry>>
    /\ UNCHANGED <<lvars, ovars>>

\* apply after applyChanges: the checksum and recordHistory.
ApplyRecord ==
    /\ epc = "applying"
    /\ pos > Len(CreationOrder(changes))
    /\ history' = Append(history,
                     [type |-> "apply", status |-> "applied",
                      checksum |-> GenerateChecksum(changes),
                      changes |-> CompactChanges(changes)])
    /\ BodyEnds("completed")
    /\ UNCHANGED <<schema, remote, calls, changes, pos, target, eforce, edry>>
    /\ UNCHANGED <<lvars, ovars>>

\* -------------------------------------------------------- relationships
\* The body of applyRelationships up to its loop.
RelStart(dry) ==
    /\ epc = "idle"
    /\ Len(history) < MaxHistory
    /\ LET rels == CalculateRelationships(schema, remote) IN
         /\ BodyStarts([NoChanges EXCEPT !.relationships = rels], 0, FALSE, dry)
         /\ IF Len(rels) = 0 THEN BodyEnds("nothing")
            ELSE IF dry THEN BodyEnds("dry_run")
            ELSE epc' = "relating" /\ eout' = "none"
    /\ UNCHANGED <<schema, remote, history>>
    /\ UNCHANGED <<lvars, ovars>>

\* RelStep of a loop that drops the error of a creation call.
RelStepDropsErrors(failed) ==
    /\ epc = "relating"
    /\ pos <= Len(RelationshipCalls(changes))
    /\ LET e == RelationshipCalls(changes)[pos]
           resp == CreateResponse(remote, e, failed)
       IN  /\ calls' = Append(calls, Call("create", e, resp))
           /\ remote' = IF resp = "ok" THEN Created(remote, e) ELSE remote
           /\ pos' = pos + 1
           /\ UNCHANGED <<epc, eout>>
    /\ UNCHANGED <<schema, history, changes, target, eforce, edry>>
    /\ UNCHANGED <<lvars, ovars>>

\* applyRelationships: one create-relationship-attribute call.
RelStep(failed) ==
    /\ epc = "relating"
    /\ pos <= Len(RelationshipCalls(changes))
    /\ LET e == RelationshipCalls(changes)[pos]
           resp == CreateResponse(remote, e, failed)
       IN  /\ calls' = Append(calls, Call("create", e, resp))
           /\ remote' = IF resp = "ok" THEN Created(remote, e) ELSE remote
           /\ IF resp = "error"
                THEN BodyEnds("body_error") /\ pos' = pos
                ELSE pos' = pos + 1 /\ UNCHANGED <<epc, eout>>
    /\ UNCHANGED <<schema, history, changes, target, eforce, edry>>
    /\ UNCHANGED <<lvars, ovars>>

\* applyRelationships after its loop: recordHistory.
RelRecord ==
    /\ epc = "relating"
    /\ pos > Len(RelationshipCalls(changes))
    /\ history' = Append(history,
                     [type |-> "relationships", status |-> "applied",
                      checksum |-> <<>>, changes |-> NoCompact])
    /\ BodyEnds("completed")
    /\ UNCHANGED <<schema, remote, calls, changes, pos, target, eforce, edry>>
    /\ UNCHANGED <<lvars, ovars>>

\* -------------------------------------------------------------- rollback
\* LatestApplied of a lookup for the newest applied document of type
\* apply.
LatestApply(h) ==
    IF \E k \in 1..Len(h) : h[k].status = "applied" /\ h[k].type = "apply"
      THEN CHOOSE k \in 1..Len(h) :
             /\ h[k].status = "applied" /\ h[k].type = "apply"
             /\ \A j \in 1..Len(h) :
                   (h[j].status = "applied" /\ h[j].type = "apply") => j <= k
      ELSE 0

\* LatestApplied of a lookup that lists the documents oldest first.
OldestApplied(h) ==
    IF \E k \in 1..Len(h) : h[k].status = "applied"
      THEN CHOOSE k \in 1..Len(h) :
             /\ h[k].status = "applied"
             /\ \A j \in 1..Len(h) : h[j].status = "applied" => k <= j
      ELSE 0

\* latestHistory('applied'): the newest history document with status
\* applied, 0 for none.
LatestApplied(h) ==
    IF \E k \in 1..Len(h) : h[k].status = "applied"
      THEN CHOOSE k \in 1..Len(h) :
             /\ h[k].status = "applied"
             /\ \A j \in 1..Len(h) : h[j].status = "applied" => j <= k
      ELSE 0

\* The body of rollback up to its loops.
RollbackStart(dry) ==
    /\ epc = "idle"
    /\ LET k == LatestApplied(history) IN
         IF k = 0 THEN BodyStarts(NoChanges, 0, FALSE, dry) /\ BodyEnds("no_history")
         ELSE IF history[k].type # "apply"
           THEN BodyStarts(NoChanges, 0, FALSE, dry) /\ BodyEnds("not_apply")
         ELSE /\ BodyStarts([collections |-> history[k].changes.collections,
                              attributes |-> history[k].changes.attributes,
                              indexes |-> history[k].changes.indexes,
                              relationships |-> <<>>], k, FALSE, dry)
              /\ IF dry THEN BodyEnds("dry_run")
                 ELSE epc' = "rolling" /\ eout' = "none"
    /\ UNCHANGED <<schema, remote, history>>
    /\ UNCHANGED <<lvars, ovars>>

\* rollback: one deletion call.  Whatever the call answers, the catch logs
\* "already removed" and the loop goes on.
RollbackStep(failed) ==
    /\ epc = "rolling"
    /\ pos <= Len(DeletionOrder(changes))
    /\ LET e == DeletionOrder(changes)[pos]
           resp == DeleteResponse(remote, e, failed)
       IN  /\ calls' = Append(calls, Call("delete", e, resp))
           /\ remote' = IF resp = "ok" THEN Deleted(remote, e) ELSE remote
           /\ pos' = pos + 1
    /\ UNCHANGED <<schema, history, epc, changes, target, eforce, edry, eout>>
    /\ UNCHANGED <<lvars, ovars>>

\* RollbackRecord of a rollback that deletes the history document.
RollbackRecordDeletes ==
    /\ epc = "rolling"
    /\ pos > Len(DeletionOrder(changes))
    /\ history' = SubSeq(history, 1, target - 1)
                     \o SubSeq(history, target + 1, Len(history))
    /\ BodyEnds("completed")
    /\ UNCHANGED <<schema, remote, calls, changes, pos, target, eforce, edry>>
    /\ UNCHANGED <<lvars, ovars>>

\* rollback after its loops: updateHistoryStatus(recordId, 'rolled_back').
RollbackRecord ==
    /\ epc = "rolling"
    /\ pos > Len(DeletionOrder(changes))
    /\ history' = [history EXCEPT ![target].status = "rolled_back"]
    /\ BodyEnds("completed")
    /\ UNCHANGED <<schema, remote, calls, changes, pos, target, eforce, edry>>
    /\ UNCHANGED <<lvars, ovars>>

\* Another client of the database (the console, a run holding another
\* lock id) creates a collection, an attribute or an index.
ExternalCreate(e) ==
    /\ ParentsExist(remote, e)
    /\ ~Exists(remote, e)
    /\ remote' = Created(remote, e)
    /\ UNCHANGED <<schema, history, epc, changes, pos, target, eforce, edry, calls, eout>>
    /\ UNCHANGED <<lvars, ovars>>

\* The entities another client can create.
ExternalEntities ==
    {[kind |-> "collection", coll |-> c, key |-> ""] : c \in CollIds}
      \cup {[kind |-> "attribute", coll |-> "users", key |-> "posts"],
            [kind |-> "index", coll |-> "users", key |-> "idx_email"]}

InitMigrate ==
    /\ LocksAtRest
    /\ \E s \in Schemas : EngineAtRest(s)
    /\ OthersAtRest

\* The bodies of apply, relationships and rollback run one at a time
\* against one database, with any schema, while another client creates
\* entities.
NextMigrate ==
    \/ \E f \in BOOLEAN, dry \in BOOLEAN : ApplyStart(f, dry)
    \/ \E failed \in BOOLEAN : ApplyStep(failed)
    \/ ApplyRecord
    \/ \E dry \in BOOLEAN : RelStart(dry)
    \/ \E failed \in BOOLEAN : RelStep(failed)
    \/ RelRecord
    \/ \E dry \in BOOLEAN : RollbackStart(dry)
    \/ \E failed \in BOOLEAN : RollbackStep(failed)
    \/ RollbackRecord
    \/ \E e \in ExternalEntities : ExternalCreate(e)

SpecMigrate == InitMigrate /\ [][NextMigrate]_vars

\* ----------------------------------------------------------------- reset
\* The body of reset up to stateStore.reset: without --yes the prompt
\* decides.
ResetStart(yes, answeredYes) ==
    /\ epc = "idle"
    /\ BodyStarts(NoChanges, 0, FALSE, FALSE)
    /\ IF ~yes /\ ~answeredYes
         THEN BodyEnds("cancelled")
         ELSE epc' = "resetting" /\ eout' = "none"
    /\ UNCHANGED <<schema, remote, history>>
    /\ UNCHANGED <<lvars, ovars>>

\* stateStore.reset: deleteDocument for the next listed document; an error
\* other than 404 ends the body.
ResetStep(failed) ==
    /\ epc = "resetting"
    /\ history # <<>>
    /\ IF failed
         THEN BodyEnds("body_error") /\ history' = history
         ELSE history' = Tail(history) /\ UNCHANGED <<epc, eout>>
    /\ UNCHANGED <<schema, remote, calls, changes, pos, target, eforce, edry>>
    /\ UNCHANGED <<lvars, ovars>>

\* ResetDone of a reset that stops before the end of the list.
ResetDoneEarly ==
    /\ epc = "resetting"
    /\ BodyEnds("cleared")
    /\ UNCHANGED <<schema, remote, history, calls, changes, pos, target, eforce, edry>>
    /\ UNCHANGED <<lvars, ovars>>

\* stateStore.reset has gone through the list: 'State cleared'.
ResetDone ==
    /\ epc = "resetting"
    /\ history = <<>>
    /\ BodyEnds("cleared")
    /\ UNCHANGED <<schema, remote, history, calls, changes, pos, target, eforce, edry>>
    /\ UNCHANGED <<lvars, ovars>>

\* The bodies of apply, relationships, rollback and reset run one at a
\* time against a database no other client writes to.
NextAlone ==
    \/ \E f \in BOOLEAN, dry \in BOOLEAN : ApplyStart(f, dry)
    \/ \E failed \in BOOLEAN : ApplyStep(failed)
    \/ ApplyRecord
    \/ \E dry \in BOOLEAN : RelStart(dry)
    \/ \E failed \in BOOLEAN : RelStep(failed)
    \/ RelRecord
    \/ \E dry \in BOOLEAN : RollbackStart(dry)
    \/ \E failed \in BOOLEAN : RollbackStep(failed)
    \/ RollbackRecord
    \/ \E yes \in BOOLEAN, answeredYes \in BOOLEAN : ResetStart(yes, answeredYes)
    \/ \E failed \in BOOLEAN : ResetStep(failed)
    \/ ResetDone

SpecAlone == InitMigrate /\ [][NextAlone]_vars

\* ------------------------------------------------- apply after apply
\* The remote states an apply can find: any of the collections, with any
\* of the plain attributes and of the indexes under their sanitized keys.
StartRemotes ==
    {R \in [colls : SUBSET CollIds,
            attrs : SUBSET {[coll |-> ToKebabCase(a.coll), key |-> a.key, type |-> "string"] :
                               a \in {x \in SeqRange(AttrDeclSeq) : ~x.rel}},
            idxs : SUBSET {[coll |-> ToKebabCase(i.coll),
                            key |-> SanitizeIndexKey(RawIndexKey(i.fields))] :
                               i \in SeqRange(IndexDeclSeq)}] :
        /\ \A a \in R.attrs : a.coll \in R.colls
        /\ \A i \in R.idxs : i.coll \in R.colls}

InitConverge ==
    /\ LocksAtRest
    /\ schema \in Schemas
    /\ remote \in StartRemotes
    /\ history = <<>>
    /\ epc = "idle"
    /\ changes = NoChanges
    /\ pos = 0
    /\ target = 0
    /\ eforce = FALSE
    /\ edry = FALSE
    /\ calls = <<>>
    /\ eout = "none"
    /\ OthersAtRest

\* apply after apply, with any schema, from any remote state, with no
\* other client writing.
NextConverge ==
    \/ \E f \in BOOLEAN, dry \in BOOLEAN : ApplyStart(f, dry)
    \/ \E failed \in BOOLEAN : ApplyStep(failed)
    \/ ApplyRecord

SpecConverge == InitConverge /\ [][NextConverge]_vars

\* ------------------------------------------------- plan and status
\* The collections stateStore.init provisions.
InternalCollections == {"awm_state", "awm_locks"}

\* The commands of run that take no lock and call no creation or deletion
\* themselves.
ReadCommands == {"plan", "status"}

\* The remote states a read-only command is run against.
ReadRemotes ==
    {NoRemote,
     Created(NoRemote, [kind |-> "collection", coll |-> "users", key |-> ""]),
     Created(Created(NoRemote, [kind |-> "collection", coll |-> "users", key |-> ""]),
             [kind |-> "attribute", coll |-> "users", key |-> "email"])}

\* The calls ensureStateCollection / ensureLockCollection issue for
\* collection c: createCollection when getCollection has found none, then
\* the attribute and index POSTs, whose 409 is swallowed.  With stop =
\* "get" getCollection has thrown, with stop = "attr" the first attribute
\* POST has thrown (an error other than 409), with stop = "no" nothing has.
EnsureCalls(c, present, stop) ==
    IF stop = "get" THEN {}
    ELSE (IF present THEN {} ELSE {[op |-> "createCollection", coll |-> c]})
           \cup {[op |-> "createAttribute", coll |-> c]}
           \cup (IF stop = "attr" THEN {} ELSE {[op |-> "createIndex", coll |-> c]})

\* new AWMImproved() of a process whose command is c: bootstrap starts;
\* without project id or API key it returns at once, and ensureConfig of
\* the command throws.
ProcessStart(c, configured) ==
    /\ rpc.at \in {"idle", "done", "config_error"}
    /\ writes' = {}
    /\ rpc' = [cmd |-> c, at |-> IF configured THEN "boot_state" ELSE "config_error"]
    /\ UNCHANGED <<internal, fvars, pvars, dvars>>
    /\ UNCHANGED <<lvars, evars>>

\* bootstrap: stateStore.init, first half.  An error ends bootstrap, is
\* printed, and the command runs all the same.
EnsureStateCollection(stop) ==
    /\ rpc.at = "boot_state"
    /\ writes' = writes \cup EnsureCalls("awm_state", "awm_state" \in internal, stop)
    /\ internal' = IF stop = "get" THEN internal ELSE internal \cup {"awm_state"}
    /\ rpc' = [rpc EXCEPT !.at = IF stop = "no" THEN "boot_locks" ELSE "body"]
    /\ UNCHANGED <<fvars, pvars, dvars>>
    /\ UNCHANGED <<lvars, evars>>

\* bootstrap: stateStore.init, second half; lockManager.init does nothing.
EnsureLockCollection(stop) ==
    /\ rpc.at = "boot_locks"
    /\ writes' = writes \cup EnsureCalls("awm_locks", "awm_locks" \in internal, stop)
    /\ internal' = IF stop = "get" THEN internal ELSE internal \cup {"awm_locks"}
    /\ rpc' = [rpc EXCEPT !.at = "body"]
    /\ UNCHANGED <<fvars, pvars, dvars>>
    /\ UNCHANGED <<lvars, evars>>

\* Plan of a plan that takes the schema-apply lock as apply does.
PlanTakesLock ==
    /\ rpc = [cmd |-> "plan", at |-> "body"]
    /\ writes' = writes \cup {[op |-> "createDocument", coll |-> "awm_locks"],
                              [op |-> "deleteDocument", coll |-> "awm_locks"]}
    /\ rpc' = [rpc EXCEPT !.at = "done"]
    /\ UNCHANGED <<internal, fvars, pvars, dvars>>
    /\ UNCHANGED <<lvars, evars>>

\* plan: describe, calculateChanges, calculateRelationships, print.
Plan ==
    /\ rpc = [cmd |-> "plan", at |-> "body"]
    /\ rpc' = [rpc EXCEPT !.at = "done"]
    /\ UNCHANGED <<internal, writes, fvars, pvars, dvars>>
    /\ UNCHANGED <<lvars, evars>>

\* status: describe, listRecords('history'), print.
Status ==
    /\ rpc = [cmd |-> "status", at |-> "body"]
    /\ rpc' = [rpc EXCEPT !.at = "done"]
    /\ UNCHANGED <<internal, writes, fvars, pvars, dvars>>
    /\ UNCHANGED <<lvars, evars>>

InitReadOnly ==
    /\ LocksAtRest
    /\ schema \in Schemas
    /\ remote \in ReadRemotes
    /\ history = <<>>
    /\ epc = "idle"
    /\ changes = NoChanges
    /\ pos = 0
    /\ target = 0
    /\ eforce = FALSE
    /\ edry = FALSE
    /\ calls = <<>>
    /\ eout = "none"
    /\ internal \in SUBSET InternalCollections
    /\ rpc = [cmd |-> "none", at |-> "idle"]
    /\ writes = {}
    /\ rawKey = <<>>
    /\ saneKey = <<>>
    /\ saneAgain = <<>>
    /\ sentKey = <<>>
    /\ storedKey = <<>>
    /\ attrIn = [type |-> "string", array |-> FALSE, default |-> "none"]
    /\ attrCmd = [op |-> "none", array |-> FALSE,
                  default |-> [present |-> FALSE, text |-> "", quoted |-> FALSE]]
    /\ parser = [lines |-> <<>>, at |-> 1, currentBlock |-> "null",
                 currentCollection |-> "", currentDatabase |-> "null",
                 bracketDepth |-> 0, databases |-> {}, collections |-> {},
                 attributes |-> {}, indexes |-> {}]
    /\ declared = [names |-> <<>>, attributes |-> <<>>, indexes |-> <<>>, remote |-> {}]
    /\ emitted = [collections |-> <<>>, attributes |-> <<>>, indexes |-> <<>>,
                  done |-> FALSE]

\* Processes running plan or status, one after the other, with any schema
\* file, against a database with or without the internal collections.
NextReadOnly ==
    \/ \E c \in ReadCommands, configured \in BOOLEAN : ProcessStart(c, configured)
    \/ \E stop \in {"no", "get", "attr"} : EnsureStateCollection(stop)
    \/ \E stop \in {"no", "get", "attr"} : EnsureLockCollection(stop)
    \/ Plan
    \/ Status

SpecReadOnly == InitReadOnly /\ [][NextReadOnly]_vars

\* --------------------------------------- sanitizeIndexKey, on characters
\* The longest body of a raw key, and the longest run of characters in
\* front of it.
MaxKeyLen == 38
MaxLead == 2

\* cleaned.length <= 36, and digest('hex').slice(0, 28).
KeyLimit == 36
HashDigits == 28

HexDigitSeq ==
    <<"0", "1", "2", "3", "4", "5", "6", "7", "8", "9", "a", "b", "c", "d", "e", "f">>

\* [a-zA-Z0-9], as far as the keys below spell it, and [a-zA-Z0-9._-].
Alphanumeric ==
    SeqRange(HexDigitSeq) \cup {"h", "i", "l", "m", "n", "r", "s", "t", "x"}
KeyCharacters == Alphanumeric \cup {".", "_", "-"}

\* The raw keys: up to MaxLead characters that are not alphanumeric, then
\* up to MaxKeyLen characters, all 'a' but the second, which is a letter, a
\* dot or a blank.  The empty key is one of them.
SeqsUpTo(S, n) == UNION {[1..m -> S] : m \in 0..n}

RawKeys ==
    {lead \o [k \in 1..n |-> IF k = 2 THEN second ELSE "a"] :
        lead \in SeqsUpTo({"_", " "}, MaxLead),
        n \in 0..MaxKeyLen,
        second \in {"a", ".", " "}}

\* replace(/^[^a-zA-Z0-9]+/, '')
RECURSIVE StripLeading(_)
StripLeading(s) ==
    IF s = <<>> THEN <<>>
    ELSE IF s[1] \in Alphanumeric THEN s
    ELSE StripLeading(Tail(s))

\* replace(/[^a-zA-Z0-9._-]/g, '_')
ReplaceOthers(s) == [k \in 1..Len(s) |-> IF s[k] \in KeyCharacters THEN s[k] ELSE "_"]

\* createHash('md5').update(s).digest('hex'): 32 hexadecimal digits that
\* are a function of s and of nothing else.  The digits here are not those
\* of MD5; they depend on the length of s and on where its underscores are.
Md5Hex(s) ==
    LET marks == {k \in 1..Len(s) : s[k] = "_"} IN
      [k \in 1..32 |->
          HexDigitSeq[((Len(s) * k + Cardinality(marks) + Cardinality(marks \cap 1..k)) % 16) + 1]]

\* sanitizeIndexKey with a limit below the length of the key it builds.
SanitizeIndexKeyShortLimit(key) ==
    LET stripped == ReplaceOthers(StripLeading(key))
        cleaned == IF stripped = <<>> THEN <<"i", "d", "x", "_", "h", "a", "s", "h">>
                   ELSE stripped
    IN  IF Len(cleaned) < HashDigits THEN cleaned
        ELSE <<"i", "d", "x", "_">> \o SubSeq(Md5Hex(cleaned), 1, HashDigits)

\* sanitizeIndexKey without the test of the length.
SanitizeIndexKeyUncut(key) ==
    LET stripped == ReplaceOthers(StripLeading(key))
    IN  IF stripped = <<>> THEN <<"i", "d", "x", "_", "h", "a", "s", "h">> ELSE stripped

\* sanitizeIndexKey, character by character.
SanitizeIndexKeyChars(key) ==
    LET stripped == ReplaceOthers(StripLeading(key))
        cleaned == IF stripped = <<>> THEN <<"i", "d", "x", "_", "h", "a", "s", "h">>
                   ELSE stripped
    IN  IF Len(cleaned) <= KeyLimit THEN cleaned
        ELSE <<"i", "d", "x", "_">> \o SubSeq(Md5Hex(cleaned), 1, HashDigits)

\* A first call of sanitizeIndexKey with the raw key.
Sanitize ==
    /\ saneKey = <<>>
    /\ saneKey' = SanitizeIndexKeyChars(rawKey)
    /\ UNCHANGED <<rawKey, saneAgain, sentKey, storedKey, attrIn, attrCmd>>
    /\ UNCHANGED <<lvars, evars, bvars, pvars, dvars>>

\* A second call with the same raw key.
SanitizeAgain ==
    /\ saneKey # <<>>
    /\ saneAgain = <<>>
    /\ saneAgain' = SanitizeIndexKeyChars(rawKey)
    /\ UNCHANGED <<rawKey, saneKey, sentKey, storedKey, attrIn, attrCmd>>
    /\ UNCHANGED <<lvars, evars, bvars, pvars, dvars>>

\* applyChanges: indexKey = this.sanitizeIndexKey(idx.key), idx.key being
\* the key calculateChanges put into the change set.
SendKey ==
    /\ saneKey # <<>>
    /\ sentKey = <<>>
    /\ sentKey' = SanitizeIndexKeyChars(saneKey)
    /\ UNCHANGED <<rawKey, saneKey, saneAgain, storedKey, attrIn, attrCmd>>
    /\ UNCHANGED <<lvars, evars, bvars, pvars, dvars>>

\* compactChanges, after applyChanges: key = this.sanitizeIndexKey(idx.key)
\* for the same entry of the change set.
StoreKey ==
    /\ sentKey # <<>>
    /\ storedKey = <<>>
    /\ storedKey' = SanitizeIndexKeyChars(saneKey)
    /\ UNCHANGED <<rawKey, saneKey, saneAgain, sentKey, attrIn, attrCmd>>
    /\ UNCHANGED <<lvars, evars, bvars, pvars, dvars>>

\* ------------------------------------------------ buildAttributeCommand
\* The attribute types, with the aliases buildAttributeCommand knows and
\* one it does not.
AttributeTypes ==
    {"string", "integer", "int", "float", "double", "boolean", "bool",
     "datetime", "email", "url", "json"}

\* The defaults normalizeDefaultValue leaves on an attribute of a type,
\* written as the text of the value; "none" is undefined.
DefaultsOf(type) ==
    {"none"} \cup
      CASE type \in {"boolean", "bool"} -> {"true", "false"}
        [] type \in {"integer", "int"} -> {"42"}
        [] type \in {"float", "double"} -> {"1.5"}
        [] type = "datetime" -> {"now", "2020-01-01"}
        [] OTHER -> {"hello"}

\* The entries of changes.attributes handed to buildAttributeCommand.
AttrInputs ==
    {a \in [type : AttributeTypes, array : BOOLEAN,
            default : UNION {DefaultsOf(t) : t \in AttributeTypes}] :
        a.default \in DefaultsOf(a.type)}

NoDefault == [present |-> FALSE, text |-> "", quoted |-> FALSE]

NoCommand == [op |-> "none", array |-> FALSE, default |-> NoDefault]

\* formatCliValue: nothing for an undefined value; booleans as true /
\* false, numbers as they are, the datetime 'now' as it is, anything else
\* between double quotes.
FormatCliValue(value, type) ==
    IF value = "none" THEN NoDefault
    ELSE IF type \in {"boolean", "bool", "integer", "int", "float", "double"}
           THEN [present |-> TRUE, text |-> value, quoted |-> FALSE]
    ELSE IF type = "datetime" /\ value = "now"
           THEN [present |-> TRUE, text |-> "now", quoted |-> FALSE]
    ELSE [present |-> TRUE, text |-> value, quoted |-> TRUE]

\* The switch of buildAttributeCommand on the type.
CreateOperation(type) ==
    CASE type = "string" -> "create-string-attribute"
      [] type \in {"integer", "int"} -> "create-integer-attribute"
      [] type \in {"float", "double"} -> "create-float-attribute"
      [] type \in {"boolean", "bool"} -> "create-boolean-attribute"
      [] type = "datetime" -> "create-datetime-attribute"
      [] type = "email" -> "create-email-attribute"
      [] type = "url" -> "create-url-attribute"
      [] OTHER -> "throw"

\* buildAttributeCommand: the operation of the type with --size (string),
\* --required and --array, and no --default; an unknown type throws.
BuildAttributeCommand(attr) ==
    [op |-> CreateOperation(attr.type), array |-> attr.array, default |-> NoDefault]

\* apply builds the command of one attribute entry.
Build ==
    /\ attrCmd = NoCommand
    /\ attrCmd' = BuildAttributeCommand(attrIn)
    /\ UNCHANGED <<rawKey, saneKey, saneAgain, sentKey, storedKey, attrIn>>
    /\ UNCHANGED <<lvars, evars, bvars, pvars, dvars>>

InitPure ==
    /\ LocksAtRest
    /\ EngineAtRest(NoSchema)
    /\ internal = InternalCollections
    /\ rpc = [cmd |-> "none", at |-> "idle"]
    /\ writes = {}
    /\ rawKey \in RawKeys
    /\ saneKey = <<>>
    /\ saneAgain = <<>>
    /\ sentKey = <<>>
    /\ storedKey = <<>>
    /\ attrIn \in AttrInputs
    /\ attrCmd = NoCommand
    /\ parser = [lines |-> <<>>, at |-> 1, currentBlock |-> "null",
                 currentCollection |-> "", currentDatabase |-> "null",
                 bracketDepth |-> 0, databases |-> {}, collections |-> {},
                 attributes |-> {}, indexes |-> {}]
    /\ declared = [names |-> <<>>, attributes |-> <<>>, indexes |-> <<>>, remote |-> {}]
    /\ emitted = [collections |-> <<>>, attributes |-> <<>>, indexes |-> <<>>,
                  done |-> FALSE]

\* The functions of the executor applied to inputs on their own.
NextPure ==
    \/ Sanitize
    \/ SanitizeAgain
    \/ SendKey
    \/ StoreKey
    \/ Build

SpecPure == InitPure /\ [][NextPure]_vars

\* ----------------------------------------------------------- parseSchema
\* The longest schema file, in lines.
MaxLines == 4

\* The words a trimmed line can begin with, letter by letter.
Database == <<"d", "a", "t", "a", "b", "a", "s", "e">>
CollectionWord == <<"c", "o", "l", "l", "e", "c", "t", "i", "o", "n">>
Email == <<"e", "m", "a", "i", "l">>
DatabaseId == Database \o <<"I", "d">>
Id == <<"i", "d">>

\* The trimmed lines of a schema file: the first word, what follows it
\* (form), the word or value that follows (arg) and the numbers of { and }
\* on the line.
\*   database {            collection Users {        }
\*   id = "main"           email String @required    databaseId String
\*   collection String     @@index([email])          // comment
SchemaLines ==
    { [first |-> Database, form |-> "brace", arg |-> "", opens |-> 1, closes |-> 0],
      [first |-> CollectionWord, form |-> "word", arg |-> "Users", opens |-> 1, closes |-> 0],
      [first |-> <<>>, form |-> "close", arg |-> "", opens |-> 0, closes |-> 1],
      [first |-> Id, form |-> "assign", arg |-> "main", opens |-> 0, closes |-> 0],
      [first |-> Email, form |-> "word", arg |-> "String", opens |-> 0, closes |-> 0],
      [first |-> DatabaseId, form |-> "word", arg |-> "String", opens |-> 0, closes |-> 0],
      [first |-> CollectionWord, form |-> "word", arg |-> "String", opens |-> 0, closes |-> 0],
      [first |-> <<>>, form |-> "index", arg |-> "email", opens |-> 0, closes |-> 0],
      [first |-> <<>>, form |-> "comment", arg |-> "", opens |-> 0, closes |-> 0] }

SchemaFiles == UNION {[1..n -> SchemaLines] : n \in 1..MaxLines}

\* trimmed.startsWith(w), for a word w without blanks: the line begins
\* with its first word.
StartsWith(l, w) ==
    /\ Len(l.first) >= Len(w)
    /\ SubSeq(l.first, 1, Len(w)) = w

\* trimmed.match(/^collection\s+(\w+)/)
CollMatch(l) == l.first = CollectionWord /\ l.form = "word"

\* trimmed.match(/^(\w+)\s+(\w+)(\[\])?\s*(.*)/)
AttrMatch(l) == l.first # <<>> /\ l.form = "word"

\* No file is being parsed.
ParserAtRest ==
    [lines |-> <<>>, at |-> 1, currentBlock |-> "null", currentCollection |-> "",
     currentDatabase |-> "null", bracketDepth |-> 0,
     databases |-> {}, collections |-> {}, attributes |-> {}, indexes |-> {}]

\* parseSchema: one pass of the loop over the lines, for line l.
ParsedLine(p, l) ==
    LET q == [p EXCEPT !.at = @ + 1]
        depth == p.bracketDepth + l.opens - l.closes
        r == [q EXCEPT !.bracketDepth = depth]
    IN  IF l.form = "comment" THEN q
        ELSE IF StartsWith(l, Database)
          THEN [r EXCEPT !.currentBlock = "database", !.currentCollection = "",
                         !.currentDatabase = "empty"]
        ELSE IF CollMatch(l)
          THEN [r EXCEPT !.currentBlock = "collection", !.currentCollection = l.arg,
                         !.collections = @ \cup {l.arg},
                         !.attributes = {a \in @ : a.coll # l.arg},
                         !.indexes = {i \in @ : i.coll # l.arg}]
        ELSE IF depth = 0
          THEN [r EXCEPT !.currentBlock = "null", !.currentCollection = "",
                         !.currentDatabase = "null",
                         !.databases = IF /\ p.currentBlock = "database"
                                          /\ p.currentDatabase \notin {"null", "empty"}
                                         THEN @ \cup {p.currentDatabase} ELSE @]
        ELSE IF p.currentBlock = "database"
          THEN IF l.form = "assign" /\ l.first = Id
                 THEN [r EXCEPT !.currentDatabase = l.arg] ELSE r
        ELSE IF p.currentBlock = "collection" /\ p.currentCollection # ""
          THEN IF AttrMatch(l)
                 THEN [r EXCEPT !.attributes =
                                    @ \cup {[coll |-> p.currentCollection, name |-> l.first]}]
               ELSE IF l.form = "index"
                 THEN [r EXCEPT !.indexes =
                                    @ \cup {[coll |-> p.currentCollection, fields |-> l.arg]}]
               ELSE r
        ELSE r

\* parseSchema is called with the content of a schema file.
ParseStart(file) ==
    /\ parser = ParserAtRest
    /\ parser' = [ParserAtRest EXCEPT !.lines = file]
    /\ UNCHANGED <<lvars, evars, bvars, fvars, dvars>>

\* The loop of parseSchema takes the next line.
ParseLine ==
    /\ parser.at <= Len(parser.lines)
    /\ parser' = ParsedLine(parser, parser.lines[parser.at])
    /\ UNCHANGED <<lvars, evars, bvars, fvars, dvars>>

InitParse ==
    /\ LocksAtRest
    /\ EngineAtRest(NoSchema)
    /\ OthersAtRest

\* parseSchema on a schema file.
NextParse ==
    \/ \E file \in SchemaFiles : ParseStart(file)
    \/ ParseLine

SpecParse == InitParse /\ [][NextParse]_vars

\* --------------------------------- calculateChanges, on declared lines
\* The longest list of collections, and of @@index / @@unique lines, of a
\* schema.
MaxDeclared == 2

UpperCase == {"B", "P", "U"}

\* toLowerCase, on one character.
LowerOf(c) ==
    CASE c = "B" -> "b"
      [] c = "P" -> "p"
      [] c = "U" -> "u"
      [] OTHER -> c

\* replace(/([a-z0-9])([A-Z])/g, '$1-$2')
RECURSIVE HyphenateCapitals(_)
HyphenateCapitals(s) ==
    IF Len(s) < 2 THEN s
    ELSE IF s[1] \notin UpperCase \cup {"_", " ", "-"} /\ s[2] \in UpperCase
      THEN <<s[1], "-">> \o HyphenateCapitals(Tail(s))
    ELSE <<s[1]>> \o HyphenateCapitals(Tail(s))

\* replace(/[\s_]+/g, '-')
RECURSIVE HyphenateBlanks(_)
HyphenateBlanks(s) ==
    IF s = <<>> THEN <<>>
    ELSE IF s[1] \in {"_", " "}
      THEN IF Len(s) > 1 /\ s[2] \in {"_", " "}
             THEN HyphenateBlanks(Tail(s))
             ELSE <<"-">> \o HyphenateBlanks(Tail(s))
    ELSE <<s[1]>> \o HyphenateBlanks(Tail(s))

\* toKebabCase, character by character.
ToKebabCaseChars(s) ==
    LET t == HyphenateBlanks(HyphenateCapitals(s)) IN [k \in 1..Len(t) |-> LowerOf(t[k])]

\* fields.join('_')
RECURSIVE JoinFields(_)
JoinFields(fields) ==
    IF fields = <<>> THEN <<>>
    ELSE IF Len(fields) = 1 THEN fields[1]
    ELSE fields[1] \o <<"_">> \o JoinFields(Tail(fields))

\* index.name || `idx_${(index.attributes || index.fields || []).join('_')}`
RawIndexKeyChars(index) == <<"i", "d", "x", "_">> \o JoinFields(index.attributes)

\* Collection names a schema file can declare:
\* Users, users, BlogPosts, blog_posts.
DeclaredNames ==
    { <<"U", "s", "e", "r", "s">>,
      <<"u", "s", "e", "r", "s">>,
      <<"B", "l", "o", "g", "P", "o", "s", "t", "s">>,
      <<"b", "l", "o", "g", "_", "p", "o", "s", "t", "s">> }

\* Index lines a collection can declare:
\* @@index([email]), @@unique([email]), @@index([first_name]),
\* @@index([first, name]).
DeclaredIndexes ==
    { [attributes |-> << <<"e", "m", "a", "i", "l">> >>, type |-> "key"],
      [attributes |-> << <<"e", "m", "a", "i", "l">> >>, type |-> "unique"],
      [attributes |-> << <<"f", "i", "r", "s", "t", "_", "n", "a", "m", "e">> >>, type |-> "key"],
      [attributes |-> << <<"f", "i", "r", "s", "t">>, <<"n", "a", "m", "e">> >>, type |-> "key"] }

\* The schemas parseSchema returns for such files, each collection with
\* the same attribute and index lines, and the ids of the collections
\* describe() returns, without attributes and indexes.
DeclaredSchemas ==
    [names : {s \in SeqsUpTo(DeclaredNames, MaxDeclared) :
                 \A j, k \in 1..Len(s) : j # k => s[j] # s[k]},
     attributes : {<<>>, <<"email">>},
     indexes : SeqsUpTo(DeclaredIndexes, MaxDeclared),
     remote : SUBSET {ToKebabCaseChars(n) : n \in DeclaredNames}]

NotCalculated == [collections |-> <<>>, attributes |-> <<>>, indexes |-> <<>>,
                  done |-> FALSE]

\* calculateChanges from collection k of the declared schema on, ch being
\* what the loop has pushed so far.
RECURSIVE CalculateChangesChars(_, _, _)
CalculateChangesChars(d, k, ch) ==
    IF k > Len(d.names) THEN [ch EXCEPT !.done = TRUE]
    ELSE LET collId == ToKebabCaseChars(d.names[k]) IN
      IF collId \notin d.remote
        THEN CalculateChangesChars(d, k + 1,
                 [ch EXCEPT !.collections = Append(@, [id |-> collId, name |-> d.names[k]])])
        ELSE CalculateChangesChars(d, k + 1,
                 [ch EXCEPT
                    !.attributes = @ \o [j \in 1..Len(d.attributes) |->
                                            [collection_id |-> collId,
                                             key |-> d.attributes[j]]],
                    !.indexes = @ \o [j \in 1..Len(d.indexes) |->
                                         [collection_id |-> collId,
                                          key |-> SanitizeIndexKeyChars(
                                                      RawIndexKeyChars(d.indexes[j])),
                                          type |-> d.indexes[j].type,
                                          attributes |-> d.indexes[j].attributes]]])

\* calculateChanges is called with the declared schema.
Calculate ==
    /\ ~emitted.done
    /\ emitted' = CalculateChangesChars(declared, 1, NotCalculated)
    /\ UNCHANGED declared
    /\ UNCHANGED <<lvars, evars, bvars, fvars, pvars>>

InitDeclared ==
    /\ LocksAtRest
    /\ EngineAtRest(NoSchema)
    /\ internal = InternalCollections
    /\ rpc = [cmd |-> "none", at |-> "idle"]
    /\ writes = {}
    /\ rawKey = <<>>
    /\ saneKey = <<>>
    /\ saneAgain = <<>>
    /\ sentKey = <<>>
    /\ storedKey = <<>>
    /\ attrIn = [type |-> "string", array |-> FALSE, default |-> "none"]
    /\ attrCmd = NoCommand
    /\ parser = ParserAtRest
    /\ declared \in DeclaredSchemas
    /\ emitted = NotCalculated

NextDeclared == Calculate

SpecDeclared == InitDeclared /\ [][NextDeclared]_vars

\* ------------------------------------------------------------------ C1
\* C1: among callers with pairwise distinct owners, none passing --force,
\* while no TTL elapses, at most one process at a time is between a
\* successful acquire of a lock id and the end of its release of it; no
\* caller gets past the contention test to overwrite an existing lock.
MutualExclusion ==
    /\ \A p \in Procs, q \in Procs :
         (p # q /\ Holding(p) /\ Holding(q)) => LockId(p) # LockId(q)
    /\ \A p \in Procs : pc[p] # "acq_update"

\* One process holds the lock and another was turned away from it.
MutualExclusionWitness ==
    \E p \in Procs, q \in Procs :
       /\ p # q
       /\ Holding(p)
       /\ locks[LockId(p)].owner = lockOwner[p]
       /\ pc[q] = "done"
       /\ result[q] = "lock_contention"
       /\ LockId(q) = LockId(p)
       /\ errHolder[q] = lockOwner[p]

\* ------------------------------------------------------------------ C2
\* C2: while one process executes the body of a mutating command, no
\* process with a different owner and without --force executes the body
\* of any mutating command, of the same kind or of another.
OneRunAtATime ==
    \A p \in Procs, q \in Procs :
       (p # q /\ lockOwner[p] # lockOwner[q] /\ ~force[p] /\ ~force[q])
          => ~(pc[p] = "body" /\ pc[q] = "body")

\* ------------------------------------------------------------------ C3
\* C3: acquire without --force on a lock that exists, is not expired and is
\* owned by someone else fails with an error naming the holder (and the
\* lock's created_at), leaves the lock document unchanged, and the caller
\* never runs its body nor issues a release.
ContentionFails ==
    [][\A p \in Procs :
         LET existing == locks[LockId(p)] IN
           /\ ( /\ pc[p] = "acq_get"
                /\ pc'[p] # pc[p]
                /\ existing # NoDoc
                /\ existing.owner # lockOwner[p]
                /\ ~force[p]
                /\ now < existing.expires_at )
              => ( /\ pc'[p] = "done"
                   /\ result'[p] = "lock_contention"
                   /\ errHolder'[p] = existing.owner
                   /\ errSince'[p] = existing.created_at
                   /\ locks' = locks )
           /\ result[p] = "lock_contention"
              => (pc[p] = "done" /\ pc'[p] \in {"done", "idle"})]_vars

\* B was refused while A, named in B's error, holds the unexpired lock.
ContentionFailsWitness ==
    \E p \in Procs, q \in Procs :
       /\ pc[q] = "done"
       /\ result[q] = "lock_contention"
       /\ ~force[q]
       /\ Holding(p)
       /\ LockId(p) = LockId(q)
       /\ lockOwner[p] # lockOwner[q]
       /\ errHolder[q] = lockOwner[p]
       /\ locks[LockId(p)].owner = lockOwner[p]
       /\ errSince[q] = locks[LockId(p)].created_at
       /\ checkedAt[q] < locks[LockId(p)].expires_at

\* ------------------------------------------------------------------ C4
\* C4: acquire with --force on an unexpired lock owned by someone else is
\* not refused, and its update leaves the lock document of that lock id
\* with the caller as owner and expires_at = (the call's now) + ttl.
ForcedAcquireTransfers ==
    [][\A p \in Procs :
         LET existing == locks[LockId(p)] IN
           /\ ( /\ pc[p] = "acq_get"
                /\ pc'[p] # pc[p]
                /\ force[p]
                /\ existing # NoDoc
                /\ existing.owner # lockOwner[p]
                /\ now < existing.expires_at )
              => pc'[p] = "acq_update"
           /\ ( /\ pc[p] = "acq_update"
                /\ pc'[p] # pc[p]
                /\ force[p]
                /\ existing # NoDoc )
              => ( /\ pc'[p] = "body"
                   /\ locks'[LockId(p)].owner = lockOwner[p]
                   /\ locks'[LockId(p)].status = "locked"
                   /\ locks'[LockId(p)].created_at = acqNow[p]
                   /\ locks'[LockId(p)].expires_at = acqNow[p] + TtlTicks
                   /\ \A l \in LockIds \ {LockId(p)} : locks'[l] = locks[l] )]_vars

\* B took the lock with --force while A, another owner, still runs under it.
ForcedAcquireWitness ==
    \E p \in Procs, q \in Procs :
       /\ pc[q] = "body"
       /\ force[q]
       /\ Holding(p)
       /\ ~force[p]
       /\ LockId(p) = LockId(q)
       /\ lockOwner[p] # lockOwner[q]
       /\ locks[LockId(q)].owner = lockOwner[q]
       /\ locks[LockId(q)].expires_at > now

\* ------------------------------------------------------------------ C5
\* C5 as stated: a lock counts as expired from the instant expires_at on,
\* so an unforced acquire by another owner is admitted at every time
\* t >= expires_at and refused at every time t < expires_at.
ExpiryBoundaryInclusive ==
    [][\A p \in Procs :
         LET existing == locks[LockId(p)] IN
           ( /\ pc[p] = "acq_get"
             /\ pc'[p] # pc[p]
             /\ existing # NoDoc
             /\ existing.owner # lockOwner[p]
             /\ ~force[p] )
           => /\ now >= existing.expires_at => pc'[p] = "acq_update"
              /\ now < existing.expires_at
                   => (pc'[p] = "done" /\ result'[p] = "lock_contention")]_vars

\* C5 as amended: a lock counts as expired only after the instant
\* expires_at, so an unforced acquire by another owner is admitted (goes on
\* to overwrite the lock) at every time t > expires_at and refused at every
\* time t <= expires_at, t = expires_at included.
ExpiryBoundaryStrict ==
    [][\A p \in Procs :
         LET existing == locks[LockId(p)] IN
           ( /\ pc[p] = "acq_get"
             /\ pc'[p] # pc[p]
             /\ existing # NoDoc
             /\ existing.owner # lockOwner[p]
             /\ ~force[p] )
           => /\ now > existing.expires_at
                   => (pc'[p] = "acq_update" /\ checkedAt'[p] = now)
              /\ now <= existing.expires_at
                   => ( /\ pc'[p] = "done"
                        /\ result'[p] = "lock_contention"
                        /\ locks' = locks )]_vars

\* An unforced acquire was refused at exactly the instant expires_at of the
\* lock it found (created_at + ttl).
ExpiryBoundaryWitness ==
    \E p \in Procs :
       /\ pc[p] = "done"
       /\ result[p] = "lock_contention"
       /\ ~force[p]
       /\ checkedAt[p] = errSince[p] + TtlTicks

\* ------------------------------------------------------------------ C6
\* C6: acquire without --force on an unexpired lock the caller's owner
\* already owns is not refused; its update rewrites created_at and
\* expires_at = (the call's now) + ttl on the one document of the lock id.
ReentrantAcquire ==
    [][\A p \in Procs :
         LET existing == locks[LockId(p)] IN
           /\ ( /\ pc[p] = "acq_get"
                /\ pc'[p] # pc[p]
                /\ ~force[p]
                /\ existing # NoDoc
                /\ existing.owner = lockOwner[p]
                /\ now < existing.expires_at )
              => (pc'[p] = "acq_update" /\ result'[p] = result[p] /\ locks' = locks)
           /\ ( /\ pc[p] = "acq_update"
                /\ pc'[p] # pc[p]
                /\ ~force[p]
                /\ existing # NoDoc
                /\ existing.owner = lockOwner[p] )
              => ( /\ pc'[p] = "body"
                   /\ locks'[LockId(p)] = [owner |-> lockOwner[p],
                                           status |-> "locked",
                                           created_at |-> acqNow[p],
                                           expires_at |-> acqNow[p] + TtlTicks]
                   /\ \A l \in LockIds \ {LockId(p)} : locks'[l] = locks[l] )]_vars

\* Two processes with one owner string run their bodies under the same
\* lock at once, neither with --force, before any lock can have expired.
ReentrantAcquireWitness ==
    \E p \in Procs, q \in Procs :
       /\ p # q
       /\ pc[p] = "body"
       /\ pc[q] = "body"
       /\ LockId(p) = LockId(q)
       /\ lockOwner[p] = lockOwner[q]
       /\ ~force[p]
       /\ ~force[q]
       /\ locks[LockId(p)].owner = lockOwner[p]
       /\ now = 0

\* ------------------------------------------------------------------ C7
\* C7: release is a no-op when no lock document exists; fails, leaving the
\* document as it is, when the document's owner differs from the caller's;
\* and deletes the document otherwise.
ReleaseContract ==
    [][\A p \in Procs :
         LET existing == locks[LockId(p)] IN
           /\ (pc[p] = "release" /\ pc'[p] \notin {"release", "idle"})
              => /\ locks' = locks
                 /\ existing = NoDoc
                      => ( /\ pc'[p] = "done"
                           /\ result'[p] = result[p]
                           /\ errHolder'[p] = errHolder[p] )
                 /\ (existing # NoDoc /\ existing.owner # lockOwner[p])
                      => ( /\ pc'[p] = "done"
                           /\ result'[p] = "release_error"
                           /\ errHolder'[p] = existing.owner )
                 /\ (existing # NoDoc /\ existing.owner = lockOwner[p])
                      => (pc'[p] = "rel_delete" /\ result'[p] = result[p])
           /\ (pc[p] = "rel_delete" /\ pc'[p] \notin {"rel_delete", "idle"})
              => ( /\ pc'[p] = "done"
                   /\ locks'[LockId(p)] = NoDoc
                   /\ \A l \in LockIds \ {LockId(p)} : locks'[l] = locks[l] )
           /\ pc'[p] = "rel_delete" => pc[p] \in {"release", "rel_delete"}]_vars

\* A release failed on a lock that meanwhile belongs to another owner, and
\* that lock is still in place.
ReleaseContractWitness ==
    \E p \in Procs :
       /\ pc[p] = "done"
       /\ result[p] = "release_error"
       /\ locks[LockId(p)] # NoDoc
       /\ locks[LockId(p)].owner = errHolder[p]
       /\ errHolder[p] # lockOwner[p]

\* ------------------------------------------------------------------ C8
\* C8: acquire on a free lock id succeeds and creates a document in state
\* locked owned by the caller; the holder's release leaves no document for
\* the lock id; and an acquire by another owner that then finds the lock
\* free succeeds without --force.  Hence, among callers with distinct
\* owners, a lock document exists exactly while some process holds the
\* lock, and it names that process.
LockRoundTrip ==
    /\ [](\A l \in LockIds :
            LET holders == {p \in Procs : Holding(p) /\ LockId(p) = l} IN
              IF holders = {}
                THEN locks[l] = NoDoc
                ELSE \E p \in holders :
                        /\ locks[l].owner = lockOwner[p]
                        /\ locks[l].status = "locked")
    /\ [][\A p \in Procs :
            (pc[p] = "acquire" /\ pc'[p] # pc[p] /\ locks[LockId(p)] = NoDoc)
              => ( /\ pc'[p] = "body"
                   /\ locks'[LockId(p)].owner = lockOwner[p]
                   /\ locks'[LockId(p)].status = "locked" )]_vars

\* A has acquired and released the lock and has returned; B, another
\* owner, then acquired the same lock without --force.
LockRoundTripWitness ==
    \E p \in Procs, q \in Procs :
       /\ pc[p] = "done"
       /\ result[p] \in BodyExits(cmd[p])
       /\ Holding(q)
       /\ ~force[q]
       /\ LockId(q) = LockId(p)
       /\ lockOwner[q] # lockOwner[p]
       /\ locks[LockId(q)].owner = lockOwner[q]

\* ------------------------------------------------------------------ C9
\* C9: the body of apply, relationships, rollback and reset starts only
\* once acquire has written the caller's lock; every way the body ends
\* (completion, early return, thrown error) is followed by release; a
\* command that entered its body returns only out of release; and when it
\* returns, no document of its lock id remains unless the lock had been
\* taken over by another owner, which release reports.
ScopedLockDiscipline ==
    [][\A p \in Procs :
         /\ (pc'[p] = "body" /\ pc[p] # "body")
            => ( /\ pc[p] \in {"acquire", "acq_update"}
                 /\ locks'[LockId(p)].owner = lockOwner[p]
                 /\ locks'[LockId(p)].status = "locked" )
         /\ (pc[p] = "body" /\ pc'[p] # "body")
            => (pc'[p] = "release" /\ result'[p] \in BodyExits(cmd[p]))
         /\ (pc'[p] = "done" /\ pc[p] # "done")
            => \/ /\ pc[p] \in {"release", "rel_delete"}
                  /\ \/ locks'[LockId(p)] = NoDoc
                     \/ /\ result'[p] = "release_error"
                        /\ locks[LockId(p)].owner # lockOwner[p]
               \/ /\ pc[p] \in {"idle", "acq_get", "acq_update"}
                  /\ result'[p] \in {"config_error", "lock_contention", "remote_error"}
                  /\ locks' = locks]_vars

\* A command whose body threw has returned and its lock is gone.
ScopedLockWitness ==
    \E p \in Procs :
       /\ pc[p] = "done"
       /\ result[p] = "body_error"
       /\ locks[LockId(p)] = NoDoc

\* ----------------------------------------------------------------- C10
\* C10: interrupting a process that holds the lock leaves the lock
\* document in place; an unforced acquire by another owner is refused
\* while the time is before the document's expires_at, and once the time
\* is past it the acquire is admitted and takes the lock over.
TtlRecovery ==
    [][\A p \in Procs :
         LET existing == locks[LockId(p)] IN
           /\ (Holding(p) /\ pc'[p] = "idle") => locks' = locks
           /\ ( /\ pc[p] = "acq_get"
                /\ pc'[p] # pc[p]
                /\ ~force[p]
                /\ existing # NoDoc
                /\ existing.owner # lockOwner[p] )
              => /\ now < existing.created_at + TtlTicks
                      => (result'[p] = "lock_contention" /\ locks' = locks)
                 /\ now > existing.created_at + TtlTicks
                      => pc'[p] = "acq_update"
           /\ ( /\ pc[p] = "acq_update"
                /\ pc'[p] # pc[p]
                /\ ~force[p]
                /\ existing # NoDoc )
              => (pc'[p] = "body" /\ locks'[LockId(p)].owner = lockOwner[p])]_vars

\* The holder of a lock is gone without releasing it, the TTL has run out,
\* and an unforced acquire by another owner has been admitted.
TtlRecoveryWitness ==
    \E p \in Procs :
       /\ pc[p] = "acq_update"
       /\ ~force[p]
       /\ locks[LockId(p)] # NoDoc
       /\ locks[LockId(p)].owner # lockOwner[p]
       /\ checkedAt[p] > locks[LockId(p)].created_at + TtlTicks
       /\ \A q \in Procs \ {p} : pc[q] = "idle"

\* ------------------------------------------------------------------ C11
\* C11 as stated: a lock acquisition never retries, so that every acquire
\* call ends after the three remote calls of one attempt (create, get,
\* update) under every interleaving: no running acquire has called itself.
AcquireNeverRetries ==
    \A p \in Procs : retries[p] = 0

\* C11, amended: acquire never waits on a lock that is held.  An attempt
\* moves forward only (create, then get, then update), a get that finds a
\* live lock of another owner ends the call at once with the contention
\* error, and acquire calls itself again only after a get that found the
\* lock document gone; each such call is a new attempt.
AcquireRetriesOnlyOnVanishedLock ==
    [][\A p \in Procs :
         /\ (pc[p] = "acquire" /\ pc'[p] # pc[p]) =>
                pc'[p] \in {"acq_get", "body"}
         /\ (pc[p] = "acq_update" /\ pc'[p] # pc[p]) =>
                pc'[p] \in {"body", "done"}
         /\ (pc[p] = "acq_get" /\ pc'[p] # pc[p]) =>
                LET existing == locks[LockId(p)] IN
                  /\ pc'[p] = "acquire" <=> existing = NoDoc
                  /\ pc'[p] = "acquire" =>
                        retries'[p] = IF retries[p] < MaxRetries
                                        THEN retries[p] + 1 ELSE retries[p]
                  /\ (existing # NoDoc
                        /\ Contended(existing, lockOwner[p], force[p], now)) =>
                        /\ pc'[p] = "done"
                        /\ result'[p] = "lock_contention"
         /\ retries'[p] > retries[p] => (pc[p] = "acq_get" /\ pc'[p] = "acquire")
      ]_vars

\* One acquire call has called itself MaxRetries times: each time another
\* caller released the lock between the refused create and the get, and
\* took it again before the next create.
AcquireRetriesWitness ==
    \E p \in Procs :
        /\ retries[p] = MaxRetries
        /\ pc[p] = "acq_get"
        /\ locks[LockId(p)] # NoDoc
        /\ locks[LockId(p)].owner # lockOwner[p]

\* ------------------------------------------------------------------ C12
\* C12: within one apply run no creation call of a later group is issued
\* before one of an earlier group: collections come before attributes and
\* indexes, attributes before indexes.
ApplyOrdering ==
    \A i \in 1..Len(calls), j \in 1..Len(calls) :
        (i < j /\ calls[i].op = "create" /\ calls[j].op = "create") =>
            <<calls[i].kind, calls[j].kind>> \notin
                {<<"attribute", "collection">>, <<"index", "collection">>,
                 <<"index", "attribute">>}

\* An apply run has completed after creating a collection, an attribute
\* and an index.
ApplyOrderingWitness ==
    /\ eout = "completed"
    /\ \E i \in 1..Len(calls), j \in 1..Len(calls), k \in 1..Len(calls) :
          /\ calls[i].op = "create" /\ calls[i].kind = "collection" /\ calls[i].resp = "ok"
          /\ calls[j].op = "create" /\ calls[j].kind = "attribute" /\ calls[j].resp = "ok"
          /\ calls[k].op = "create" /\ calls[k].kind = "index" /\ calls[k].resp = "ok"

\* ------------------------------------------------------------------ C13
\* C13: a creation call of applyChanges that is answered 'already exists'
\* (409 for an index) does not end the run: nothing changes remotely and
\* the loop goes on with the next entry.  Applying a change set to the
\* state left by applying it changes nothing, at any point of a run and in
\* particular when a run has gone through its whole change set.
ApplyIdempotent ==
    /\ [](epc = "applying" =>
            LET once == ApplyChanges(changes, remote) IN
              /\ ApplyChanges(changes, once) = once
              /\ pos > Len(CreationOrder(changes)) => once = remote)
    /\ [][(/\ epc = "applying"
           /\ Len(calls') > Len(calls)
           /\ calls'[Len(calls')].resp = "exists") =>
              /\ epc' = "applying"
              /\ eout' = "none"
              /\ pos' = pos + 1
              /\ remote' = remote]_vars

\* An apply run has completed although one of its entities had come to
\* exist between the diff and its creation call.
ApplyIdempotentWitness ==
    /\ eout = "completed"
    /\ Len(history) > 0
    /\ history[Len(history)].type = "apply"
    /\ \E i \in 1..Len(calls) : calls[i].op = "create" /\ calls[i].resp = "exists"
    /\ \E i \in 1..Len(calls) : calls[i].op = "create" /\ calls[i].resp = "ok"

\* ------------------------------------------------------------------ C14
\* C14: a creation call of apply that fails with an error other than
\* 'already exists' ends the run when --force is not set, and with --force
\* the loop goes on with the next entry.
ApplyErrorPolicy ==
    [][(/\ epc = "applying"
        /\ Len(calls') > Len(calls)
        /\ calls'[Len(calls')].resp = "error") =>
           IF eforce
             THEN epc' = "applying" /\ pos' = pos + 1
             ELSE epc' = "idle" /\ eout' = "body_error"]_vars

\* ------------------------------------------------------------------ C15
\* C15: an apply run that has gone through its whole change set without an
\* error appends one history document of type apply and status applied
\* with the checksum and the compacted change set of the run; no other
\* step of apply appends or changes a history document: not the step that
\* aborts the run (the entities created before it stay), not the early
\* returns of a dry run or of an empty change set.
HistoryOnCompletedApply ==
    [][/\ (epc = "applying" /\ epc' = "idle" /\ eout' = "completed") =>
             /\ pos > Len(CreationOrder(changes))
             /\ \A i \in 1..Len(calls) : calls[i].resp # "error"
             /\ history' = Append(history,
                              [type |-> "apply", status |-> "applied",
                               checksum |-> GenerateChecksum(changes),
                               changes |-> CompactChanges(changes)])
       /\ (epc = "applying" /\ ~(epc' = "idle" /\ eout' = "completed")) =>
             history' = history
       /\ (epc = "applying" /\ epc' = "idle" /\ eout' = "body_error") =>
             remote' = remote
       /\ (epc = "idle" /\ epc' = "idle") => history' = history
      ]_vars

\* An apply run that created an attribute has completed, and the newest
\* history document holds its compacted change set.
HistoryRecordedWitness ==
    /\ epc = "idle"
    /\ eout = "completed"
    /\ target = 0
    /\ Len(changes.attributes) > 0
    /\ Len(history) > 0
    /\ history[Len(history)].type = "apply"
    /\ history[Len(history)].status = "applied"
    /\ history[Len(history)].changes = CompactChanges(changes)
    /\ history[Len(history)].checksum = GenerateChecksum(changes)

\* ------------------------------------------------------------------ C16
\* C16: after one successful apply of a schema against an empty remote
\* state, with no other writer, calculateChanges returns the empty change
\* set.
ConvergesAfterOneApply ==
    (/\ epc = "idle"
     /\ eout = "completed"
     /\ Len(history) = 1
     /\ history[1].type = "apply"
     /\ history[1].status = "applied"
     /\ history[1].changes = CompactChanges(changes)
     /\ remote = ApplyChanges(changes, NoRemote))
        => EmptyChanges(CalculateChanges(schema, remote))

\* ------------------------------------------------------------------ C17
\* C17: calculateChanges never puts an attribute declared with
\* @relationship among its attributes, an apply run issues no creation
\* call for such an attribute and no relationship-creation call, and a
\* relationship attribute comes to exist remotely only by a step of the
\* relationships command.
TwoPhaseSeparation ==
    /\ [](LET ch == CalculateChanges(schema, remote) IN
            \A k \in 1..Len(ch.attributes) :
                ~DeclaredRelationship(ch.attributes[k].collection_id, ch.attributes[k].key))
    /\ [][epc = "applying" =>
            \A i \in 1..Len(calls') :
                /\ calls'[i].kind # "relationship"
                /\ ~DeclaredRelationship(calls'[i].coll, calls'[i].key)]_vars
    /\ [][(\E a \in remote'.attrs : a.type = "relationship" /\ a \notin remote.attrs)
            => epc = "relating"]_vars

\* An apply run has completed on a schema that declares a relationship
\* attribute for an existing collection: it created the plain attribute of
\* the collection and left the relationship attribute out.
TwoPhaseWitness ==
    /\ eout = "completed"
    /\ target = 0
    /\ Len(changes.relationships) = 0
    /\ [coll |-> "Users", key |-> "posts", rel |-> TRUE] \in schema.attrs
    /\ \E i \in 1..Len(calls) :
          /\ calls[i].kind = "attribute" /\ calls[i].coll = "users"
          /\ calls[i].key = "email" /\ calls[i].resp = "ok"
    /\ ~HasAttribute(remote, "users", "posts")
    /\ CalculateRelationships(schema, remote) # <<>>

\* ------------------------------------------------------------------ C18
\* C18: a rollback that starts deleting works on the newest history
\* document with status applied, which is of type apply.  When no document
\* has status applied, or the newest one that has is not of type apply
\* (whatever older documents there are), the rollback issues no deletion,
\* changes no status and returns without an error.
RollbackTargetSelection ==
    /\ [][(epc = "idle" /\ epc' = "rolling") =>
            /\ target' \in 1..Len(history)
            /\ history[target'].status = "applied"
            /\ history[target'].type = "apply"
            /\ \A j \in 1..Len(history) :
                  history[j].status = "applied" => j <= target'
            /\ CompactChanges(changes') = history[target'].changes]_vars
    /\ [][(/\ epc = "idle"
           /\ \/ LatestApplied(history) = 0
              \/ history[LatestApplied(history)].type # "apply") =>
              /\ epc' # "rolling"
              /\ calls' \in {calls, <<>>}
              /\ eout' = "body_error" => eout = "body_error"
              /\ remote' \in {remote} \cup {Created(remote, e) : e \in ExternalEntities}
              /\ \A j \in 1..Len(history) :
                    j <= Len(history') /\ history'[j] = history[j]]_vars
    /\ [](eout \in {"no_history", "not_apply"} => (epc = "idle" /\ calls = <<>>))

\* A rollback has returned with nothing to roll back: the newest applied
\* document is a relationships run, behind it lies an applied apply run.
RollbackTargetWitness ==
    /\ eout = "not_apply"
    /\ Len(history) = 2
    /\ history[1].type = "apply" /\ history[1].status = "applied"
    /\ history[2].type = "relationships" /\ history[2].status = "applied"
    /\ calls = <<>>

\* ------------------------------------------------------------------ C19
\* C19: within one rollback run the index deletions come before the
\* attribute deletions and these before the collection deletions, and no
\* attribute or index is deleted after the collection that owns it.
RollbackOrdering ==
    \A i \in 1..Len(calls), j \in 1..Len(calls) :
        (i < j /\ calls[i].op = "delete" /\ calls[j].op = "delete") =>
            /\ <<calls[i].kind, calls[j].kind>> \notin
                  {<<"collection", "attribute">>, <<"collection", "index">>,
                   <<"attribute", "index">>}
            /\ ~(/\ calls[i].kind = "collection"
                 /\ calls[j].kind \in {"attribute", "index"}
                 /\ calls[j].coll = calls[i].coll)

\* A rollback has completed after deleting an index, an attribute and a
\* collection.
RollbackOrderingWitness ==
    /\ eout = "completed"
    /\ target > 0
    /\ \E i \in 1..Len(calls), j \in 1..Len(calls), k \in 1..Len(calls) :
          /\ calls[i].op = "delete" /\ calls[i].kind = "index" /\ calls[i].resp = "ok"
          /\ calls[j].op = "delete" /\ calls[j].kind = "attribute" /\ calls[j].resp = "ok"
          /\ calls[k].op = "delete" /\ calls[k].kind = "collection" /\ calls[k].resp = "ok"

\* ------------------------------------------------------------------ C20
\* C20: a deletion of rollback that fails with 'not found' counts as done
\* and the run goes on; a deletion that fails for another reason ends the
\* rollback, and the status of the history document stays applied.
RollbackErrorHandling ==
    /\ [][(epc = "rolling" /\ Len(calls') > Len(calls)) =>
            LET resp == calls'[Len(calls')].resp IN
              /\ resp = "not_found" => (epc' = "rolling" /\ pos' = pos + 1)
              /\ resp = "error" =>
                    /\ epc' = "idle"
                    /\ eout' = "body_error"
                    /\ history' = history]_vars
    /\ [](\A k \in 1..Len(history) :
            (k = target /\ history[k].status = "rolled_back") =>
                \A i \in 1..Len(calls) : calls[i].resp # "error")

\* ------------------------------------------------------------------ C21
\* C21: as long as reset is not run, no history document is deleted, the
\* payload of a document never changes, and the only change of a status is
\* from applied to rolled_back, made by the last step of a rollback on the
\* document it worked on; no document goes back to applied.
HistoryAppendFlipOnly ==
    [][/\ Len(history') >= Len(history)
       /\ \A k \in 1..Len(history) :
            /\ history'[k].type = history[k].type
            /\ history'[k].checksum = history[k].checksum
            /\ history'[k].changes = history[k].changes
            /\ history'[k].status # history[k].status =>
                  /\ history[k].status = "applied"
                  /\ history'[k].status = "rolled_back"
                  /\ epc = "rolling"
                  /\ k = target
                  /\ pos > Len(DeletionOrder(changes))
                  /\ epc' = "idle" /\ eout' = "completed"]_vars

\* An apply run was rolled back and another apply run recorded after it:
\* both documents are there, the older one rolled back.
HistoryAppendFlipWitness ==
    /\ Len(history) = 2
    /\ history[1].type = "apply" /\ history[1].status = "rolled_back"
    /\ history[2].type = "apply" /\ history[2].status = "applied"

\* ------------------------------------------------------------------ C22
\* C22: a rollback run right after a successful apply that created
\* collection users, each of its deletion calls answered without an error,
\* leaves users absent from the remote database and the history document
\* of the apply in status rolled_back.
ApplyThenRollback ==
    (/\ epc = "idle"
     /\ eout = "completed"
     /\ target \in 1..Len(history)
     /\ \E k \in 1..Len(history[target].changes.collections) :
           history[target].changes.collections[k].id = "users"
     /\ \A i \in 1..Len(calls) : calls[i].resp # "error")
        => /\ "users" \notin remote.colls
           /\ history[target].status = "rolled_back"

\* The schema declares Users with an attribute and an index, the apply
\* found users absent and created it, and the rollback after it has
\* completed with the deletion of users.
ApplyThenRollbackWitness ==
    /\ epc = "idle"
    /\ eout = "completed"
    /\ target = 1
    /\ Len(history) = 1
    /\ [coll |-> "Users", key |-> "email", rel |-> FALSE] \in schema.attrs
    /\ [coll |-> "Users", fields |-> "email"] \in schema.idxs
    /\ calls = <<Call("delete", [kind |-> "collection", coll |-> "users", key |-> ""], "ok")>>
    /\ "users" \notin remote.colls
    /\ history[1].status = "rolled_back"

\* ------------------------------------------------------------------ C24
\* C24: a run of apply, relationships or rollback with --dry-run issues no
\* creation or deletion call, appends no history document and changes no
\* status: the remote schema and the history are after it what they were
\* before it.
DryRunExecutesNothing ==
    /\ [](edry => (/\ epc = "idle"
                   /\ calls = <<>>
                   /\ eout \in {"dry_run", "nothing", "no_history", "not_apply"}))
    /\ [][edry' => (remote' = remote /\ history' = history)]_vars

\* A rollback with --dry-run has returned although the newest applied
\* apply run lists entities to delete, and an apply with --dry-run has
\* returned although the change set is not empty.
DryRunWitness ==
    /\ edry
    /\ eout = "dry_run"
    /\ \/ target > 0 /\ Len(DeletionOrder(changes)) > 0 /\ remote.colls # {}
       \/ target = 0 /\ Len(changes.attributes) > 0 /\ ~EmptyChanges(CalculateChanges(schema, remote))

\* ------------------------------------------------------------------ C25
\* C25: a relationship-creation call answered 'already exists' changes
\* nothing and the loop goes on; a call that fails for another reason
\* (the related collection is missing, say) ends the command with the
\* error.  One history document of type relationships and status applied
\* is appended by a run whose pending list is not empty, that is no dry
\* run and whose loop has gone through without an error, and by no other
\* step of the command.
RelationshipsContract ==
    [][/\ (epc = "relating" /\ Len(calls') > Len(calls)) =>
             LET resp == calls'[Len(calls')].resp IN
               /\ resp = "exists" =>
                     (epc' = "relating" /\ pos' = pos + 1 /\ remote' = remote)
               /\ resp = "error" =>
                     (epc' = "idle" /\ eout' = "body_error" /\ history' = history)
       /\ (epc = "relating" /\ epc' = "idle" /\ eout' = "completed") =>
             /\ Len(changes.relationships) > 0
             /\ ~edry
             /\ pos > Len(RelationshipCalls(changes))
             /\ \A i \in 1..Len(calls) : calls[i].resp # "error"
             /\ history' = Append(history,
                              [type |-> "relationships", status |-> "applied",
                               checksum |-> <<>>, changes |-> NoCompact])
       /\ (/\ epc = "relating" /\ epc' = "idle"
           /\ pos > Len(RelationshipCalls(changes))) => eout' = "completed"
       /\ (epc = "relating" /\ ~(epc' = "idle" /\ eout' = "completed")) =>
             history' = history
       /\ (/\ Len(history') > Len(history)
           /\ history'[Len(history')].type = "relationships") => epc = "relating"
      ]_vars

\* A relationships run has completed and recorded its document; the
\* relationship of users was answered 'already exists' because an
\* attribute of that key was there.
RelationshipsWitness ==
    /\ epc = "idle"
    /\ eout = "completed"
    /\ Len(changes.relationships) > 0
    /\ history # <<>>
    /\ history[Len(history)].type = "relationships"
    /\ \E i \in 1..Len(calls) :
          calls[i].kind = "relationship" /\ calls[i].resp = "exists"

\* A relationships run has ended with the error of a creation call: the
\* related collection does not exist.
RelationshipsErrorSeen ==
    /\ eout = "body_error"
    /\ Len(changes.relationships) > 0
    /\ "blog-posts" \notin remote.colls
    /\ "users" \in remote.colls

\* ------------------------------------------------------------------ C26
\* C26: while reset runs no user collection, attribute or index changes;
\* when it has completed no history document is left, so that a rollback
\* started then deletes nothing; a reset whose prompt is declined leaves
\* every history document as it was.
ResetClearsHistoryOnly ==
    /\ [](eout = "cleared" => (epc = "idle" /\ history = <<>>
                                /\ LatestApplied(history) = 0))
    /\ [][/\ (epc = "resetting" \/ epc' = "resetting") => remote' = remote
          /\ eout = "cleared" => epc' # "rolling"
          /\ (epc = "idle" /\ eout' = "cancelled") =>
                (epc' = "idle" /\ history' = history /\ remote' = remote)]_vars

\* A reset has completed on a database that holds collection users: the
\* history is empty, the collection is still there.
ResetWitness ==
    /\ eout = "cleared"
    /\ history = <<>>
    /\ "users" \in remote.colls
    /\ remote.attrs # {}

\* ------------------------------------------------------------------ C29
\* The entries change set ch holds for declared collection n of schema S
\* are those of a diff against remote state R in which n exists: one
\* attribute entry for each declared attribute of n without @relationship
\* whose name is no key of a remote attribute of n and none for any other
\* key, one index entry under the sanitized key for each declared index of n
\* whose sanitized key is no key of a remote index of n and none for any
\* other key.
ExistingDiffed(ch, S, R, n) ==
    LET id == ToKebabCase(n)
        attrEntries(k) == {p \in 1..Len(ch.attributes) :
                             /\ ch.attributes[p].collection_id = id
                             /\ ch.attributes[p].key = k}
        idxEntries(f) == {p \in 1..Len(ch.indexes) :
                             /\ ch.indexes[p].collection_id = id
                             /\ ch.indexes[p].attributes = f}
    IN  /\ \A a \in SeqRange(AttrDeclSeq) :
              a.coll = n =>
                Cardinality(attrEntries(a.key)) =
                    IF a \in S.attrs /\ ~a.rel /\ ~HasAttribute(R, id, a.key)
                      THEN 1 ELSE 0
        /\ \A p \in 1..Len(ch.attributes) :
              ch.attributes[p].collection_id = id =>
                \E a \in S.attrs : a.coll = n /\ a.key = ch.attributes[p].key
        /\ \A i \in SeqRange(IndexDeclSeq) :
              i.coll = n =>
                /\ Cardinality(idxEntries(i.fields)) =
                      IF /\ i \in S.idxs
                         /\ ~HasIndex(R, id, SanitizeIndexKey(RawIndexKey(i.fields)))
                        THEN 1 ELSE 0
                /\ \A p \in idxEntries(i.fields) :
                      ch.indexes[p].key = SanitizeIndexKey(RawIndexKey(i.fields))
        /\ \A p \in 1..Len(ch.indexes) :
              ch.indexes[p].collection_id = id =>
                \E i \in S.idxs : i.coll = n /\ i.fields = ch.indexes[p].attributes

\* C29: for every declared collection whose kebab-cased id the remote
\* state holds, calculateChanges emits an attribute entry for exactly the
\* declared attributes without @relationship whose name is no key of a
\* remote attribute of the collection, an index entry for exactly the
\* declared indexes whose sanitized key is no key of a remote index of
\* the collection, and nothing for what is present; so is the change set
\* apply works on.
DiffOfExistingCollection ==
    /\ [](\A n \in schema.colls :
             ToKebabCase(n) \in remote.colls =>
                ExistingDiffed(CalculateChanges(schema, remote), schema, remote, n))
    /\ [][(epc = "idle" /\ epc' = "applying") =>
             \A n \in schema.colls :
                ToKebabCase(n) \in remote.colls =>
                   ExistingDiffed(changes', schema, remote, n)]_vars

\* apply has computed the change set of an existing collection users: an
\* attribute and the long-named index are to be created, index idx_email is
\* there already and is not in the change set.
DiffOfExistingWitness ==
    /\ epc = "applying"
    /\ pos = 1
    /\ calls = <<>>
    /\ "users" \in remote.colls
    /\ HasIndex(remote, "users", "idx_email")
    /\ \E i \in schema.idxs : i.coll = "Users" /\ i.fields = "email"
    /\ Len(changes.attributes) > 0
    /\ Len(changes.indexes) > 0
    /\ \A p \in 1..Len(changes.indexes) : changes.indexes[p].key # "idx_email"

\* The remote state holds the index whose raw key is longer than the
\* limit, under its sanitized key, and the schema declares it.
LongIndexPresent ==
    /\ epc = "idle"
    /\ HasIndex(remote, "users", "idx_9f2c41d07ab35e6618c0d4b7a3e5")
    /\ \E i \in schema.idxs : i.fields = "email_address_of_the_account_holder"

\* ------------------------------------------------------------------ C30
\* C30: for every declared collection whose kebab-cased id the remote
\* state lacks, calculateChanges emits one collection entry and no
\* attribute or index entry; so no attribute or index entry of a change
\* set has the collection_id of a collection entry of the same change
\* set, in what calculateChanges returns and in what apply works on.
NewCollectionAlone(ch) ==
    LET ids == {ch.collections[k].id : k \in 1..Len(ch.collections)} IN
      /\ \A p \in 1..Len(ch.attributes) : ch.attributes[p].collection_id \notin ids
      /\ \A p \in 1..Len(ch.indexes) : ch.indexes[p].collection_id \notin ids

DiffOfNewCollection ==
    /\ [](LET ch == CalculateChanges(schema, remote) IN
            /\ \A n \in schema.colls :
                  ToKebabCase(n) \notin remote.colls =>
                    /\ Cardinality({k \in 1..Len(ch.collections) :
                                       ch.collections[k].id = ToKebabCase(n)}) = 1
                    /\ \A p \in 1..Len(ch.attributes) :
                          ch.attributes[p].collection_id # ToKebabCase(n)
                    /\ \A p \in 1..Len(ch.indexes) :
                          ch.indexes[p].collection_id # ToKebabCase(n)
            /\ NewCollectionAlone(ch))
    /\ [](NewCollectionAlone(changes))

\* apply has computed a change set with the new collection blog-posts,
\* which is declared with an attribute, next to an attribute entry of the
\* existing collection users.
DiffOfNewWitness ==
    /\ epc = "applying"
    /\ pos = 1
    /\ calls = <<>>
    /\ "users" \in remote.colls
    /\ "blog-posts" \notin remote.colls
    /\ \E k \in 1..Len(changes.collections) :
          /\ changes.collections[k].id = "blog-posts"
          /\ changes.collections[k].attributes # {}
    /\ Len(changes.attributes) > 0

\* ------------------------------------------------------------------ C23
\* C23 as stated: a process that runs plan or status issues no create,
\* update or delete call from its start to its exit, whatever the remote
\* state is, the state without the internal collections included.
ReadOnlyFromStartToExit ==
    /\ [](rpc.cmd \in ReadCommands => writes = {})
    /\ [][rpc'.cmd \in ReadCommands => internal' = internal]_vars

\* C23, amended: the body of plan and of status issues no create, update
\* or delete call; the only such calls of the process are those of
\* bootstrap, which creates the internal collections awm_state and
\* awm_locks when they are missing and posts their attributes and indexes;
\* no history document, lock document or user collection, attribute or
\* index is created or changed by the process.
ReadOnlyExceptBootstrap ==
    /\ [](\A w \in writes :
             /\ w.coll \in InternalCollections
             /\ w.op \in {"createCollection", "createAttribute", "createIndex"})
    /\ [][/\ rpc.at = "body" => (writes' = writes /\ internal' = internal)
          /\ remote' = remote
          /\ history' = history
          /\ locks' = locks
          /\ internal \subseteq internal'
          /\ \A w \in writes' \ writes :
                w.op = "createCollection" => w.coll \in internal' \ internal
          /\ \A c \in internal' \ internal :
                [op |-> "createCollection", coll |-> c] \in writes']_vars

\* plan has run to its end in a database without the internal
\* collections: its process has created both.
ReadOnlyWitness ==
    /\ rpc = [cmd |-> "plan", at |-> "done"]
    /\ [op |-> "createCollection", coll |-> "awm_state"] \in writes
    /\ [op |-> "createCollection", coll |-> "awm_locks"] \in writes
    /\ internal = InternalCollections

SanitizeEmptyWitness ==
    /\ StripLeading(rawKey) = <<>>
    /\ rawKey # <<>>
    /\ saneAgain = <<"i", "d", "x", "_", "h", "a", "s", "h">>

\* ------------------------------------------------------------------ C28
\* C28: the creation command apply builds for an attribute entry carries
\* the declared default of the attribute, formatted for its type, exactly
\* when the attribute is no array and has a default; the command of an
\* array attribute carries none.
DefaultCarried ==
    attrCmd.op \notin {"none", "throw"} =>
       attrCmd.default =
          IF ~attrIn.array /\ attrIn.default # "none"
            THEN FormatCliValue(attrIn.default, attrIn.type)
            ELSE NoDefault

\* The command of an attribute that is no array and declares a default
\* has been built, without the default.
DefaultDropped ==
    /\ attrCmd.op = "create-string-attribute"
    /\ ~attrIn.array
    /\ attrIn.default = "hello"
    /\ ~attrCmd.default.present

\* ------------------------------------------------------------------ C31
\* The list rels holds one entry for declared attribute a when a carries
\* @relationship and the remote collection of its collection's id has no
\* attribute of type relationship with its key, and none otherwise.
PendingExactly(rels, S, R) ==
    /\ \A a \in SeqRange(AttrDeclSeq) :
          Cardinality({p \in 1..Len(rels) :
                          /\ rels[p].collection = ToKebabCase(a.coll)
                          /\ rels[p].key = a.key}) =
             IF /\ a \in S.attrs
                /\ a.rel
                /\ [coll |-> ToKebabCase(a.coll), key |-> a.key,
                    type |-> "relationship"] \notin R.attrs
               THEN 1 ELSE 0
    /\ \A p \in 1..Len(rels) :
          \E a \in S.attrs :
             a.rel /\ ToKebabCase(a.coll) = rels[p].collection /\ a.key = rels[p].key

\* C31: calculateRelationships lists a declared relationship attribute
\* exactly when the remote collection of the declaring collection's id
\* has no attribute of type relationship with that key, which is so too
\* when that collection does not exist or holds an attribute of another
\* type under the key; it lists no attribute without @relationship.  The
\* pending list the relationships command works on is that list.
RelationshipDiff ==
    /\ [](PendingExactly(CalculateRelationships(schema, remote), schema, remote))
    /\ [][(epc = "idle" /\ epc' = "relating") =>
             PendingExactly(changes'.relationships, schema, remote)]_vars

\* The relationships command has computed its pending list against a
\* remote collection users that holds a plain attribute posts: the
\* relationship users.posts is pending.
RelationshipDiffWitness ==
    /\ epc = "relating"
    /\ pos = 1
    /\ calls = <<>>
    /\ [coll |-> "users", key |-> "posts", type |-> "string"] \in remote.attrs
    /\ \E p \in 1..Len(changes.relationships) :
          changes.relationships[p].collection = "users"
            /\ changes.relationships[p].key = "posts"

\* The relationship is pending while the remote collection does not
\* exist.
RelationshipPendingWithoutCollection ==
    /\ epc = "relating"
    /\ pos = 1
    /\ "users" \notin remote.colls
    /\ Len(changes.relationships) > 0

\* The relationship exists remotely and nothing is pending.
RelationshipNotPending ==
    /\ [coll |-> "users", key |-> "posts", type |-> "relationship"] \in remote.attrs
    /\ \E a \in schema.attrs : a.rel
    /\ CalculateRelationships(schema, remote) = <<>>

\* ------------------------------------------------------------------ C32
\* Line l has the form '<fieldName> <type>' with decorators, and its
\* braces, if any, are balanced.
FieldLine(l) == l.form = "word" /\ l.first # <<>> /\ l.opens = l.closes

\* C32: while a collection block is open, every line of the form
\* '<fieldName> <type>', whatever word the field name is, adds an
\* attribute of that name to the collection and leaves the block open; the
\* block is left only when the bracket depth returns to 0.
ParserBlockContract ==
    [][(/\ parser.at <= Len(parser.lines)
        /\ parser.currentBlock = "collection"
        /\ parser.bracketDepth > 0) =>
          /\ FieldLine(parser.lines[parser.at]) =>
                /\ [coll |-> parser.currentCollection,
                    name |-> parser.lines[parser.at].first] \in parser'.attributes
                /\ parser'.currentBlock = "collection"
                /\ parser'.currentCollection = parser.currentCollection
          /\ (\/ parser'.currentBlock # "collection"
              \/ parser'.currentCollection # parser.currentCollection) =>
                parser'.bracketDepth = 0]_vars

\* The line 'databaseId String' has been read inside the open block of
\* collection Users: the parser is in a database block, at depth 1, and
\* Users has no attribute databaseId.
FieldTakenForDatabase ==
    /\ parser.at > 2
    /\ parser.lines[parser.at - 1].first = DatabaseId
    /\ parser.currentBlock = "database"
    /\ parser.bracketDepth = 1
    /\ "Users" \in parser.collections
    /\ [coll |-> "Users", name |-> DatabaseId] \notin parser.attributes

\* The line 'email String' has been read inside the open block of
\* collection Users and has added the attribute.
FieldParsed ==
    /\ parser.at > Len(parser.lines)
    /\ parser.currentBlock = "null"
    /\ [coll |-> "Users", name |-> Email] \in parser.attributes
    /\ [coll |-> "Users", fields |-> "email"] \in parser.indexes

\* ------------------------------------------------------------------ C33
\* C33: when callers with pairwise distinct owners call acquire without
\* --force on an expired lock at the same time, at most one of the calls
\* returns successfully before the new lock expires or is released: the
\* update of an acquire that returns successfully never overwrites a
\* lock of another owner that has not expired.
ExpiredTakeoverExclusive ==
    [][\A p \in Procs :
          (pc[p] = "acq_update" /\ pc'[p] = "body" /\ ~force[p]) =>
             \/ locks[LockId(p)].owner = lockOwner[p]
             \/ Expired(locks[LockId(p)], now)]_vars

\* Two callers hold the same lock at once, each after a successful
\* acquire, while the lock document is that of one of them and has not
\* expired.
TakeoverByTwo ==
    \E p, q \in Procs :
       /\ p # q
       /\ pc[p] = "body" /\ pc[q] = "body"
       /\ cmd[p] = cmd[q]
       /\ lockOwner[p] # lockOwner[q]
       /\ ~force[p] /\ ~force[q]
       /\ locks[LockId(p)].owner = lockOwner[q]
       /\ locks[LockId(p)].created_at = now
       /\ ~Expired(locks[LockId(p)], now)

\* ------------------------------------------------------------------ C34
\* C34: a lock document whose owner, at the moment of the deletion, is not
\* the owner release was called with is never deleted by that release,
\* under any interleaving with acquire calls of other owners, with --force
\* or after expiry.
ReleaseDeletesOwnLockOnly ==
    [][\A p \in Procs :
          (/\ pc[p] = "rel_delete"
           /\ pc'[p] = "done"
           /\ locks[LockId(p)] # NoDoc
           /\ locks'[LockId(p)] = NoDoc) =>
             locks[LockId(p)].owner = lockOwner[p]]_vars

\* A caller is about to delete the lock document while the document is
\* that of another owner, who holds the lock.
ReleaseAboutToDeleteForeign ==
    \E p, q \in Procs :
       /\ p # q
       /\ pc[p] = "rel_delete"
       /\ pc[q] = "body"
       /\ cmd[p] = cmd[q]
       /\ locks[LockId(p)] # NoDoc
       /\ locks[LockId(p)].owner = lockOwner[q]
       /\ lockOwner[q] # lockOwner[p]

\* ------------------------------------------------------------------ C35
\* C35: from any remote state, without another writer, once two apply
\* runs have ended successfully (each with its history document, or with
\* nothing to apply) calculateChanges returns the empty change set, and
\* every apply after that records no history document and creates
\* nothing.
ConvergesWithinTwoApplies ==
    /\ []((epc = "idle" /\ (Len(history) >= 2 \/ eout = "nothing")) =>
             EmptyChanges(CalculateChanges(schema, remote)))
    /\ [][(epc = "idle" /\ Len(history) >= 2) =>
             /\ epc' = "idle"
             /\ eout' = "nothing"
             /\ calls' = <<>>
             /\ history' = history
             /\ remote' = remote]_vars

\* A third apply has found nothing to apply after two applies that each
\* recorded a history document, the second of them having created the
\* attributes and indexes of the collections the first one created.
ConvergedWitness ==
    /\ epc = "idle"
    /\ eout = "nothing"
    /\ Len(history) = 2
    /\ Len(history[1].changes.collections) > 0
    /\ Len(history[2].changes.attributes) > 0
    /\ Len(history[2].changes.indexes) > 0
    /\ changes = NoChanges

\* ------------------------------------------------------------------ C36
\* C36: for every schema and remote state calculateChanges emits no two
\* collection entries with the same id, no two attribute entries with the
\* same collection_id and key, and no two index entries with the same
\* collection_id and key.
NoDuplicateEntries ==
    /\ \A j, k \in 1..Len(emitted.collections) :
          j # k => emitted.collections[j].id # emitted.collections[k].id
    /\ \A j, k \in 1..Len(emitted.attributes) :
          j # k => ~(/\ emitted.attributes[j].collection_id = emitted.attributes[k].collection_id
                     /\ emitted.attributes[j].key = emitted.attributes[k].key)
    /\ \A j, k \in 1..Len(emitted.indexes) :
          j # k => ~(/\ emitted.indexes[j].collection_id = emitted.indexes[k].collection_id
                     /\ emitted.indexes[j].key = emitted.indexes[k].key)

\* The change set of a collection that declares @@index([email]) and
\* @@unique([email]) holds both under the key idx_email.
IndexAbsorbed ==
    /\ emitted.done
    /\ Len(declared.names) = 1
    /\ Len(emitted.indexes) = 2
    /\ emitted.indexes[1].key = <<"i", "d", "x", "_", "e", "m", "a", "i", "l">>
    /\ emitted.indexes[2].key = emitted.indexes[1].key
    /\ emitted.indexes[1].type # emitted.indexes[2].type

\* The change set of a schema that declares BlogPosts and blog_posts holds
\* two collection entries with the id blog-posts.
CollectionTwice ==
    /\ emitted.done
    /\ Len(emitted.collections) = 2
    /\ emitted.collections[1].id = emitted.collections[2].id
    /\ emitted.collections[1].id = <<"b", "l", "o", "g", "-", "p", "o", "s", "t", "s">>

\* ------------------------------------------------------------------ C37
\* C37: sanitizeIndexKey returns a key it leaves as it is, so for every
\* raw key the key the diff looks up, the key applyChanges sends on
\* creation and the key compactChanges stores in the history record are
\* the same key.
IndexKeyConsistent ==
    /\ saneKey # <<>> => SanitizeIndexKeyChars(SanitizeIndexKeyChars(rawKey)) = saneKey
    /\ sentKey # <<>> => sentKey = saneKey
    /\ storedKey # <<>> => storedKey = saneKey

\* The key of a raw key of more than 36 characters has been sent and
\* stored: it is the 32 characters the diff looked up.
HashedKeyStored ==
    /\ Len(StripLeading(rawKey)) > KeyLimit
    /\ storedKey # <<>>
    /\ Len(storedKey) = 4 + HashDigits
    /\ sentKey = storedKey

\* The key of a raw key with a leading underscore and a blank has been
\* sent and stored.
ReplacedKeyStored ==
    /\ rawKey = <<"_", "a", " ", "a">>
    /\ storedKey = <<"a", "_", "a">>
    /\ sentKey = storedKey

\* ------------------------------------------------------------------ C38
\* A rollback starts its loops on the record the apply run that has just
\* completed wrote: calls still holds the creation calls of that run.
RollbackOfLastRun ==
    /\ epc = "idle"
    /\ eout = "completed"
    /\ calls # <<>>
    /\ calls[1].op = "create"
    /\ calls[1].kind # "relationship"
    /\ epc' = "rolling"
    /\ target' = Len(history)

\* The run whose calls are cs created the entity e: its creation call was
\* answered with success, not with 'already exists'.
CreatedBy(cs, e) ==
    \E j \in 1..Len(cs) :
        /\ cs[j].op = "create"
        /\ cs[j].kind = e.kind
        /\ cs[j].coll = e.coll
        /\ cs[j].key = e.key
        /\ cs[j].resp = "ok"

\* C38: every collection, attribute or index a rollback sets out to delete
\* was created by the apply run whose record is rolled back; an entity
\* whose creation that run saw answered 'already exists' is not among
\* them.
RollbackOnlyOwnCreations ==
    [][RollbackOfLastRun =>
          \A k \in 1..Len(DeletionOrder(changes')) :
              CreatedBy(calls, DeletionOrder(changes')[k])]_vars

\* ------------------------------------------------------------------ C39
\* A rollback completes: updateHistoryStatus has returned.
RollbackCompletes == epc = "rolling" /\ epc' = "idle" /\ eout' = "completed"

\* C39: a completed rollback flips one record from applied to rolled_back,
\* the most recently created apply record that is still applied, every
\* record created after it being rolled back already; a rolled-back
\* record stays rolled back, so consecutive rollbacks walk through the
\* apply records in reverse order of creation, each once; and when no
\* record is applied any more a rollback starts no deletion.
RollbackWalksBackwards ==
    /\ [][RollbackCompletes =>
            /\ target \in 1..Len(history)
            /\ history[target].type = "apply"
            /\ history[target].status = "applied"
            /\ history' = [history EXCEPT ![target].status = "rolled_back"]
            /\ \A j \in (target + 1)..Len(history) :
                  history[j].status = "rolled_back"]_vars
    /\ [][\A j \in 1..Len(history) :
            history[j].status = "rolled_back" =>
               /\ j <= Len(history')
               /\ history'[j] = history[j]]_vars
    /\ [][(\A j \in 1..Len(history) : history[j].status = "rolled_back") =>
            /\ epc' # "rolling"
            /\ epc = "idle" => calls' \in {calls, <<>>}]_vars

\* Two apply runs have been rolled back, the second before the first, and
\* a third rollback has found nothing to roll back.
AllRolledBack ==
    /\ Len(history) = 2
    /\ \A j \in 1..Len(history) :
          history[j].type = "apply" /\ history[j].status = "rolled_back"
    /\ eout = "no_history"
    /\ calls = <<>>

\* The newer of two apply runs has been rolled back, the older is still
\* applied.
NewestRolledBackFirst ==
    /\ Len(history) = 2
    /\ history[1].type = "apply" /\ history[1].status = "applied"
    /\ history[2].type = "apply" /\ history[2].status = "rolled_back"
    /\ eout = "completed"
    /\ target = 2
====
